---- MODULE Spec2Model ----
(***************************************************************************)
(* The progression engine of the IIT Learn study tracker: the XP           *)
(* aggregator and level calculator (xpEngine.js), the streak / freeze      *)
(* state machine (updateStreak), the versioned persistence gateway         *)
(* (storage.js) and the dispatch orchestrator (app.js).                    *)
(*                                                                         *)
(* A Program is a record; a field a document does not define (JavaScript   *)
(* undefined) is a field the record does not have.  A calendar date        *)
(* "YYYY-MM-DD" is the tuple <<y, m, d>>; null is the empty tuple.         *)
(***************************************************************************)
EXTENDS Integers, Sequences, FiniteSets, TLC

VARIABLES
  program,           \* app.js `let program` (Undefined before initApp)
  stored,            \* localStorage[STORAGE_KEY]: the persisted document, or NoDoc
  clock,             \* the device clock: index of today's date in Dates
  nextId,            \* the next identifier generateId hands out
  modal,             \* the open modal and the callback it holds
  expandedWeeks,     \* app.js expandedWeeks (a Set of week ids)
  expandedLectures,  \* app.js expandedLectures (a Set of lecture ids)
  last,              \* the handler that ran last and what it did, in order
  h,                 \* the call under study where a function is specified on its own
  storage            \* what localStorage.setItem does: "ok", or it throws - "full"
                     \* (QuotaExceededError) or "blocked" (any other error)

vars ==
  <<program, stored, clock, nextId, modal, expandedWeeks, expandedLectures, last, h, storage>>
appVars ==
  <<program, stored, clock, nextId, modal, expandedWeeks, expandedLectures, last, storage>>

----------------------------------------------------------------------------
(* Bounds of the model *)

\* In a session in which every handler runs:
\* identifiers generateId hands out, and weeks and lectures held at once
MaxIds == 2
\* ticked boxes and counted units (questions, revisions, notes) held at once
MaxSize == 2
\* the XP xpHistory records for one day
MaxDayXP == 10

\* In a session of ticking boxes and completing a week:
\* identifiers generateId hands out
MaxGateIds == 3
\* ticked boxes held at once
MaxMarks == 4
\* the XP xpHistory records for one day
MaxGateDayXP == 32

\* weeks a Program holds at once
MaxWeeks == 1

----------------------------------------------------------------------------
(* xpEngine.js: the XP rule table *)

LECTURE_WATCH == 5
LECTURE_MEMORY == 7
LECTURE_ACTIVITY == 1
LECTURE_FINAL == 5
LECTURE_REVISION == 10
PRACTICE_Q == 2
GRADED_Q == 2
WEEKLY_MEMORY == 10
WEEKLY_FINAL == 10
WEEK_COMPLETE == 15
XP_PER_LEVEL == 250
MAX_FREEZES == 3

(* storage.js *)
SCHEMA_VERSION == 4

----------------------------------------------------------------------------
(* JavaScript values *)

Null == <<>>
Undefined == [undefined |-> TRUE]
NoDoc == [nodoc |-> TRUE]

Has(obj, key) == key \in DOMAIN obj

\* obj[key] || dflt, for a numeric field
OrZero(obj, key) == IF Has(obj, key) THEN obj[key] ELSE 0

Max(a, b) == IF a >= b THEN a ELSE b
Min(a, b) == IF a <= b THEN a ELSE b

RECURSIVE SumSeq(_)
SumSeq(s) == IF Len(s) = 0 THEN 0 ELSE Head(s) + SumSeq(Tail(s))

\* obj with obj[key] = val, the key added when the object lacks it
Put(obj, key, val) == [k \in DOMAIN obj \cup {key} |-> IF k = key THEN val ELSE obj[k]]

----------------------------------------------------------------------------
(* Calendar dates: new Date('YYYY-MM-DD') is UTC midnight of that day *)

IsLeap(y) == (y % 4 = 0 /\ y % 100 # 0) \/ y % 400 = 0

DaysInMonth(y, m) ==
  IF m = 2 THEN (IF IsLeap(y) THEN 29 ELSE 28)
  ELSE IF m \in {4, 6, 9, 11} THEN 30 ELSE 31

RECURSIVE DaysBeforeMonth(_, _)
DaysBeforeMonth(y, m) ==
  IF m = 1 THEN 0 ELSE DaysBeforeMonth(y, m - 1) + DaysInMonth(y, m - 1)

\* days from 0001-01-01 to date d
DayNumber(d) ==
  LET y == d[1] - 1
  IN 365 * y + (y \div 4) - (y \div 100) + (y \div 400) + DaysBeforeMonth(d[1], d[2]) + d[3]

\* Math.round((new Date(today) - new Date(last)) / 86400000)
DiffDays(today, lastDay) == DayNumber(today) - DayNumber(lastDay)

\* string comparison a < b of two ISO dates
DateLess(a, b) ==
  \/ a[1] < b[1]
  \/ a[1] = b[1] /\ a[2] < b[2]
  \/ a[1] = b[1] /\ a[2] = b[2] /\ a[3] < b[3]

\* the day after date d
NextDay(d) ==
  IF d[3] < DaysInMonth(d[1], d[2]) THEN <<d[1], d[2], d[3] + 1>>
  ELSE IF d[2] < 12 THEN <<d[1], d[2] + 1, 1>>
  ELSE <<d[1] + 1, 1, 1>>

\* the day before date d
PrevDay(d) ==
  IF d[3] > 1 THEN <<d[1], d[2], d[3] - 1>>
  ELSE IF d[2] > 1 THEN <<d[1], d[2] - 1, DaysInMonth(d[1], d[2] - 1)>>
  ELSE <<d[1] - 1, 12, 31>>

----------------------------------------------------------------------------
(* xpEngine.js: the aggregator *)

\* clamp without its upper end
Clamp_NoUpper(n, lo, hi) == Max(lo, n)

Clamp(n, lo, hi) == Max(lo, Min(hi, n))

\* calcLectureXP starting from the cached lec.xpEarned instead of 0
CalcLectureXP_AddsToCache(lec) ==
    OrZero(lec, "xpEarned")
  + (IF lec.watched THEN LECTURE_WATCH ELSE 0)
  + (IF lec.memoryNote THEN LECTURE_MEMORY ELSE 0)
  + Clamp(lec.activityDone, 0, lec.activityTotal) * LECTURE_ACTIVITY
  + (IF lec.finalNote THEN LECTURE_FINAL ELSE 0)
  + OrZero(lec, "revisionCount") * LECTURE_REVISION

\* calcLectureXP counting one revision at most
CalcLectureXP_CapsRevisions(lec) ==
    (IF lec.watched THEN LECTURE_WATCH ELSE 0)
  + (IF lec.memoryNote THEN LECTURE_MEMORY ELSE 0)
  + Clamp(lec.activityDone, 0, lec.activityTotal) * LECTURE_ACTIVITY
  + (IF lec.finalNote THEN LECTURE_FINAL ELSE 0)
  + Min(1, OrZero(lec, "revisionCount")) * LECTURE_REVISION

CalcLectureXP(lec) ==
    (IF lec.watched THEN LECTURE_WATCH ELSE 0)
  + (IF lec.memoryNote THEN LECTURE_MEMORY ELSE 0)
  + Clamp(lec.activityDone, 0, lec.activityTotal) * LECTURE_ACTIVITY
  + (IF lec.finalNote THEN LECTURE_FINAL ELSE 0)
  + OrZero(lec, "revisionCount") * LECTURE_REVISION

LectureCore(lec) == lec.watched /\ lec.memoryNote /\ lec.finalNote

\* the core predicate holding of a week without lectures
IsWeekCoreComplete_Vacuous(week) ==
  \A i \in 1..Len(week.lectures) : LectureCore(week.lectures[i])

IsWeekCoreComplete(week) ==
  /\ Len(week.lectures) > 0
  /\ \A i \in 1..Len(week.lectures) : LectureCore(week.lectures[i])

\* the lecture loop leaving lec.xpEarned as it finds it
RecalcLectures_KeepsCache(lectures) == lectures

\* the lectures of a week with lec.xpEarned rewritten
RecalcLectures(lectures) ==
  [i \in 1..Len(lectures) |-> Put(lectures[i], "xpEarned", CalcLectureXP(lectures[i]))]

AssignmentDone(a) == Clamp(a.doneQuestions, 0, a.totalQuestions)

\* the bonus of one week: weekCompleted && coreComplete
CompletionXP(week) ==
  IF week.weekCompleted /\ IsWeekCoreComplete(week) THEN WEEK_COMPLETE ELSE 0

\* the week total taken from the cache when there is one
WeekTotal_FromCache(week) ==
  IF OrZero(week, "xpEarned") > 0 THEN week.xpEarned
  ELSE   SumSeq([i \in 1..Len(week.lectures) |-> CalcLectureXP(week.lectures[i])])
       + AssignmentDone(week.practiceAssignment) * PRACTICE_Q
       + AssignmentDone(week.gradedAssignment) * GRADED_Q
       + (IF week.weeklyMemoryNote THEN WEEKLY_MEMORY ELSE 0)
       + (IF week.weeklyFinalNote THEN WEEKLY_FINAL ELSE 0)
       + CompletionXP(week)

\* weekTotal of one pass of the loop body of recalculateTotalXP
WeekTotal(week) ==
    SumSeq([i \in 1..Len(week.lectures) |-> CalcLectureXP(week.lectures[i])])
  + AssignmentDone(week.practiceAssignment) * PRACTICE_Q
  + AssignmentDone(week.gradedAssignment) * GRADED_Q
  + (IF week.weeklyMemoryNote THEN WEEKLY_MEMORY ELSE 0)
  + (IF week.weeklyFinalNote THEN WEEKLY_FINAL ELSE 0)
  + CompletionXP(week)

\* one week after the loop body: lec.xpEarned and week.xpEarned rewritten
RecalcWeek(week) ==
  Put([week EXCEPT !.lectures = RecalcLectures(week.lectures)], "xpEarned", WeekTotal(week))

\* program.weeks as recalculateTotalXP leaves it
RecalcWeeks(weeks) == [i \in 1..Len(weeks) |-> RecalcWeek(weeks[i])]

\* weekXPBreakdown(week): the figures a week card shows, the lectures' XP taken
\* from the cached lec.xpEarned
WeekXPBreakdown(week) ==
  LET lectureXP    == SumSeq([i \in 1..Len(week.lectures) |->
                                OrZero(week.lectures[i], "xpEarned")])
      practiceXP   == Clamp(week.practiceAssignment.doneQuestions, 0,
                            week.practiceAssignment.totalQuestions) * PRACTICE_Q
      gradedXP     == Clamp(week.gradedAssignment.doneQuestions, 0,
                            week.gradedAssignment.totalQuestions) * GRADED_Q
      memoryXP     == IF week.weeklyMemoryNote THEN WEEKLY_MEMORY ELSE 0
      finalXP      == IF week.weeklyFinalNote THEN WEEKLY_FINAL ELSE 0
      completionXP == IF week.weekCompleted /\ IsWeekCoreComplete(week)
                      THEN WEEK_COMPLETE ELSE 0
  IN [lectureXP |-> lectureXP, practiceXP |-> practiceXP, gradedXP |-> gradedXP,
      memoryXP |-> memoryXP, finalXP |-> finalXP, completionXP |-> completionXP,
      total |-> lectureXP + practiceXP + gradedXP + memoryXP + finalXP + completionXP]

\* the value recalculateTotalXP returns
RecalculateTotalXP(weeks) == SumSeq([i \in 1..Len(weeks) |-> WeekTotal(weeks[i])])

\* getLevel counting the levels from 0
GetLevel_FromZero(totalXP) == totalXP \div XP_PER_LEVEL

GetLevel(totalXP) == (totalXP \div XP_PER_LEVEL) + 1

\* getLevelProgress, the fraction as numerator and denominator
GetLevelProgress(totalXP) == [num |-> totalXP % XP_PER_LEVEL, den |-> XP_PER_LEVEL]

XpToNextLevel(totalXP) == XP_PER_LEVEL - (totalXP % XP_PER_LEVEL)

----------------------------------------------------------------------------
(* xpEngine.js: the streak / freeze state machine *)

\* updateStreak spending a freeze on every gap of two days or more
UpdateStreak_FreezeAnyGap(p, today) ==
  LET lastDay == p.lastActiveDate
      freezes == OrZero(p, "streakFreezes")
      best    == OrZero(p, "bestStreak")
  IN IF lastDay = Null
       THEN [streak |-> 1, bestStreak |-> Max(1, best), lastActiveDate |-> today,
             streakFreezes |-> freezes, freezeUsed |-> FALSE]
     ELSE IF lastDay = today
       THEN [streak |-> p.streak, bestStreak |-> best, lastActiveDate |-> today,
             streakFreezes |-> freezes, freezeUsed |-> FALSE]
     ELSE IF DiffDays(today, lastDay) = 1
       THEN [streak |-> p.streak + 1, bestStreak |-> Max(p.streak + 1, best),
             lastActiveDate |-> today, streakFreezes |-> freezes, freezeUsed |-> FALSE]
     ELSE IF DiffDays(today, lastDay) >= 2 /\ freezes > 0
       THEN [streak |-> p.streak + 1, bestStreak |-> Max(p.streak + 1, best),
             lastActiveDate |-> today, streakFreezes |-> freezes - 1, freezeUsed |-> TRUE]
     ELSE [streak |-> 1, bestStreak |-> best, lastActiveDate |-> today,
           streakFreezes |-> freezes, freezeUsed |-> FALSE]

\* updateStreak emptying the freeze pool when the streak breaks
UpdateStreak_ResetDropsFreezes(p, today) ==
  LET lastDay == p.lastActiveDate
      freezes == OrZero(p, "streakFreezes")
      best    == OrZero(p, "bestStreak")
  IN IF lastDay = Null
       THEN [streak |-> 1, bestStreak |-> Max(1, best), lastActiveDate |-> today,
             streakFreezes |-> freezes, freezeUsed |-> FALSE]
     ELSE IF lastDay = today
       THEN [streak |-> p.streak, bestStreak |-> best, lastActiveDate |-> today,
             streakFreezes |-> freezes, freezeUsed |-> FALSE]
     ELSE IF DiffDays(today, lastDay) = 1
       THEN [streak |-> p.streak + 1, bestStreak |-> Max(p.streak + 1, best),
             lastActiveDate |-> today, streakFreezes |-> freezes, freezeUsed |-> FALSE]
     ELSE IF DiffDays(today, lastDay) = 2 /\ freezes > 0
       THEN [streak |-> p.streak + 1, bestStreak |-> Max(p.streak + 1, best),
             lastActiveDate |-> today, streakFreezes |-> freezes - 1, freezeUsed |-> TRUE]
     ELSE [streak |-> 1, bestStreak |-> best, lastActiveDate |-> today,
           streakFreezes |-> 0, freezeUsed |-> FALSE]

\* updateStreak leaving bestStreak alone on the day after the last
UpdateStreak_NextDayKeepsBest(p, today) ==
  LET lastDay == p.lastActiveDate
      freezes == OrZero(p, "streakFreezes")
      best    == OrZero(p, "bestStreak")
  IN IF lastDay = Null
       THEN [streak |-> 1, bestStreak |-> Max(1, best), lastActiveDate |-> today,
             streakFreezes |-> freezes, freezeUsed |-> FALSE]
     ELSE IF lastDay = today
       THEN [streak |-> p.streak, bestStreak |-> best, lastActiveDate |-> today,
             streakFreezes |-> freezes, freezeUsed |-> FALSE]
     ELSE IF DiffDays(today, lastDay) = 1
       THEN [streak |-> p.streak + 1, bestStreak |-> best,
             lastActiveDate |-> today, streakFreezes |-> freezes, freezeUsed |-> FALSE]
     ELSE IF DiffDays(today, lastDay) = 2 /\ freezes > 0
       THEN [streak |-> p.streak + 1, bestStreak |-> Max(p.streak + 1, best),
             lastActiveDate |-> today, streakFreezes |-> freezes - 1, freezeUsed |-> TRUE]
     ELSE [streak |-> 1, bestStreak |-> best, lastActiveDate |-> today,
           streakFreezes |-> freezes, freezeUsed |-> FALSE]

\* updateStreak keeping a stored streak on the first activation
UpdateStreak_FirstKeepsStreak(p, today) ==
  LET lastDay == p.lastActiveDate
      freezes == OrZero(p, "streakFreezes")
      best    == OrZero(p, "bestStreak")
  IN IF lastDay = Null
       THEN [streak |-> Max(1, p.streak), bestStreak |-> Max(1, best), lastActiveDate |-> today,
             streakFreezes |-> freezes, freezeUsed |-> FALSE]
     ELSE IF lastDay = today
       THEN [streak |-> p.streak, bestStreak |-> best, lastActiveDate |-> today,
             streakFreezes |-> freezes, freezeUsed |-> FALSE]
     ELSE IF DiffDays(today, lastDay) = 1
       THEN [streak |-> p.streak + 1, bestStreak |-> Max(p.streak + 1, best),
             lastActiveDate |-> today, streakFreezes |-> freezes, freezeUsed |-> FALSE]
     ELSE IF DiffDays(today, lastDay) = 2 /\ freezes > 0
       THEN [streak |-> p.streak + 1, bestStreak |-> Max(p.streak + 1, best),
             lastActiveDate |-> today, streakFreezes |-> freezes - 1, freezeUsed |-> TRUE]
     ELSE [streak |-> 1, bestStreak |-> best, lastActiveDate |-> today,
           streakFreezes |-> freezes, freezeUsed |-> FALSE]

\* updateStreak without the branch for the day already counted
UpdateStreak_NoSameDay(p, today) ==
  LET lastDay == p.lastActiveDate
      freezes == OrZero(p, "streakFreezes")
      best    == OrZero(p, "bestStreak")
  IN IF lastDay = Null
       THEN [streak |-> 1, bestStreak |-> Max(1, best), lastActiveDate |-> today,
             streakFreezes |-> freezes, freezeUsed |-> FALSE]
     ELSE IF DiffDays(today, lastDay) = 1
       THEN [streak |-> p.streak + 1, bestStreak |-> Max(p.streak + 1, best),
             lastActiveDate |-> today, streakFreezes |-> freezes, freezeUsed |-> FALSE]
     ELSE IF DiffDays(today, lastDay) = 2 /\ freezes > 0
       THEN [streak |-> p.streak + 1, bestStreak |-> Max(p.streak + 1, best),
             lastActiveDate |-> today, streakFreezes |-> freezes - 1, freezeUsed |-> TRUE]
     ELSE [streak |-> 1, bestStreak |-> best, lastActiveDate |-> today,
           streakFreezes |-> freezes, freezeUsed |-> FALSE]

UpdateStreak(p, today) ==
  LET lastDay == p.lastActiveDate
      freezes == OrZero(p, "streakFreezes")
      best    == OrZero(p, "bestStreak")
  IN IF lastDay = Null
       THEN [streak |-> 1, bestStreak |-> Max(1, best), lastActiveDate |-> today,
             streakFreezes |-> freezes, freezeUsed |-> FALSE]
     ELSE IF lastDay = today
       THEN [streak |-> p.streak, bestStreak |-> best, lastActiveDate |-> today,
             streakFreezes |-> freezes, freezeUsed |-> FALSE]
     ELSE IF DiffDays(today, lastDay) = 1
       THEN [streak |-> p.streak + 1, bestStreak |-> Max(p.streak + 1, best),
             lastActiveDate |-> today, streakFreezes |-> freezes, freezeUsed |-> FALSE]
     ELSE IF DiffDays(today, lastDay) = 2 /\ freezes > 0
       THEN [streak |-> p.streak + 1, bestStreak |-> Max(p.streak + 1, best),
             lastActiveDate |-> today, streakFreezes |-> freezes - 1, freezeUsed |-> TRUE]
     ELSE [streak |-> 1, bestStreak |-> best, lastActiveDate |-> today,
           streakFreezes |-> freezes, freezeUsed |-> FALSE]

----------------------------------------------------------------------------
(* storage.js: the persistence gateway *)

EmptyMap == [k \in {} |-> 0]

CreateDefaultProgram ==
  [schemaVersion |-> SCHEMA_VERSION, weeks |-> <<>>, totalXP |-> 0, level |-> 1,
   streak |-> 0, bestStreak |-> 0, streakFreezes |-> 0, lastActiveDate |-> Null,
   xpHistory |-> EmptyMap]

\* JSON.stringify / JSON.parse of a document: every defined field is written and
\* read back; a field the object lacks is not written
JSONStringify(doc) == [json |-> doc]
JSONParse(text) == text.json

\* one lecture / week of a migration pass that back-fills a lecture field
FillLecture(lec, key, val) == IF Has(lec, key) THEN lec ELSE Put(lec, key, val)
FillLectures(weeks, key, val) ==
  [i \in 1..Len(weeks) |->
     [weeks[i] EXCEPT !.lectures =
        [j \in 1..Len(weeks[i].lectures) |-> FillLecture(weeks[i].lectures[j], key, val)]]]

MigrateV2(data) ==
  Put([data EXCEPT !.weeks = FillLectures(data.weeks, "revisionCount", 0)], "schemaVersion", 2)

\* the v3 transform setting bestStreak to the streak whether or not it is there
MigrateV3_ResetsBest(data) ==
  LET d1 == [data EXCEPT !.weeks = FillLectures(data.weeks, "notes", "")]
  IN Put(Put(d1, "bestStreak", OrZero(d1, "streak")), "schemaVersion", 3)

MigrateV3(data) ==
  LET d1 == [data EXCEPT !.weeks = FillLectures(data.weeks, "notes", "")]
      d2 == IF Has(d1, "bestStreak") THEN d1 ELSE Put(d1, "bestStreak", OrZero(d1, "streak"))
  IN Put(d2, "schemaVersion", 3)

MigrateV4(data) ==
  LET d1 == IF Has(data, "streakFreezes") THEN data ELSE Put(data, "streakFreezes", 0)
  IN Put(d1, "schemaVersion", 4)

\* every top-level field of the default Program the document lacks
FillDefaults(data) ==
  [k \in DOMAIN data \cup DOMAIN CreateDefaultProgram |->
     IF Has(data, k) THEN data[k] ELSE CreateDefaultProgram[k]]

\* migrate applying the three transforms whatever the version
Migrate_AllTransforms(data) == FillDefaults(MigrateV4(MigrateV3(MigrateV2(data))))

\* migrate taking a document one version further per call (else-if for if)
Migrate_OneStep(data) ==
  LET v == OrZero(data, "schemaVersion")
  IN FillDefaults(IF v < 2 THEN MigrateV2(data)
                  ELSE IF v < 3 THEN MigrateV3(data)
                  ELSE IF v < 4 THEN MigrateV4(data) ELSE data)

Migrate(data) ==
  LET v  == OrZero(data, "schemaVersion")
      d2 == IF v < 2 THEN MigrateV2(data) ELSE data
      d3 == IF v < 3 THEN MigrateV3(d2) ELSE d2
      d4 == IF v < 4 THEN MigrateV4(d3) ELSE d3
  IN FillDefaults(d4)

\* saveProgram writing only where there is no document yet
SaveProgram_KeepsFirst(doc, p) ==
  IF storage = "ok" /\ doc = NoDoc THEN JSONStringify(p) ELSE doc

\* saveProgram(p): what localStorage holds afterwards, doc being what it held
SaveProgram(doc, p) == IF storage = "ok" THEN JSONStringify(p) ELSE doc

\* saveProgram's return value: true after setItem, false from the catch block
SaveReturns == storage = "ok"

\* what saveProgram does in order: setItem, and in the catch block
\* console.error, and alert for a QuotaExceededError
SaveEffects ==
  <<"save">> \o (IF storage = "ok" THEN <<>> ELSE <<"console.error">>)
             \o (IF storage = "full" THEN <<"alert">> ELSE <<>>)

LoadProgram(raw) == IF raw = NoDoc THEN CreateDefaultProgram ELSE Migrate(JSONParse(raw))

\* The text of a file, as parseImportedBackup's tests see it: whether JSON.parse
\* accepts it, whether the value is a non-null object, whether its weeks is an
\* array and its totalXP a number; text is what JSON.parse makes of it, the
\* fields of a wrong type left out.
FileText(parses, isObject, weeksIsArray, totalXPIsNumber, doc) ==
  [parses |-> parses, object |-> isObject, weeksArray |-> weeksIsArray,
   totalXPNumber |-> totalXPIsNumber, text |-> JSONStringify(doc)]

\* the text of a backup: JSON.stringify of a document with fields of the types
\* the application writes
BackupText(doc) == FileText(TRUE, TRUE, Has(doc, "weeks"), Has(doc, "totalXP"), doc)

\* exportBackup leaving xpHistory out of the file
ExportBackup_WithoutHistory(p) ==
  BackupText([k \in DOMAIN p \ {"xpHistory"} |-> p[k]])

\* exportBackup(program): the text of the file downloaded
ExportBackup(p) == BackupText(p)

\* parseImportedBackup without the test of totalXP
ParseImportedBackup_NoTotalCheck(file) ==
  IF ~file.parses THEN [ok |-> FALSE, error |-> "Could not read file", program |-> Undefined]
  ELSE IF ~file.object
    THEN [ok |-> FALSE, error |-> "Not a valid JSON file.", program |-> Undefined]
  ELSE IF ~file.weeksArray
    THEN [ok |-> FALSE, error |-> "Missing weeks", program |-> Undefined]
  ELSE [ok |-> TRUE, error |-> "", program |-> Migrate(JSONParse(file.text))]

\* parseImportedBackup: JSON.parse, the three tests, then migrate
ParseImportedBackup(file) ==
  IF ~file.parses THEN [ok |-> FALSE, error |-> "Could not read file", program |-> Undefined]
  ELSE IF ~file.object
    THEN [ok |-> FALSE, error |-> "Not a valid JSON file.", program |-> Undefined]
  ELSE IF ~file.weeksArray
    THEN [ok |-> FALSE, error |-> "Missing weeks", program |-> Undefined]
  ELSE IF ~file.totalXPNumber
    THEN [ok |-> FALSE, error |-> "Missing totalXP", program |-> Undefined]
  ELSE [ok |-> TRUE, error |-> "", program |-> Migrate(JSONParse(file.text))]

----------------------------------------------------------------------------
(* The environment: the device clock and the files a user may import *)

\* the UTC calendar dates the device clock shows, in order: a day, the next
\* day, two days on, a day of the next spring, then a year on (365 days after
\* the first), and the day after that, early and later in the day
Dates ==
  << <<2025, 10, 25>>, <<2025, 10, 26>>, <<2025, 10, 28>>, <<2026, 3, 29>>,
     <<2026, 10, 25>>, <<2026, 10, 26>>, <<2026, 10, 26>> >>

\* what the time of day and the time zone make of recordXP's cutoff: it is
\* computed in local time (setDate) and read in UTC (toISOString), so where the
\* daylight-saving offset of the two local dates differs and the hour is next
\* to UTC midnight, the cutoff falls a day off 365 days before today.  In
\* Europe/Berlin it is 2025-03-30, a day late, at 23:30 UTC on 2026-03-29, and
\* 2025-10-25, a day early, at 00:30 UTC on 2026-10-26.
Slips == <<0, 0, 0, 1, 0, -1, 0>>

\* todayISO()
TodayISO == Dates[clock]

\* a hand-edited backup: no weeks, a totalXP nothing accounts for, five freezes
DocEdited ==
  [schemaVersion |-> 4, weeks |-> <<>>, totalXP |-> 100, level |-> 1, streak |-> 0,
   bestStreak |-> 0, streakFreezes |-> 5, lastActiveDate |-> Null, xpHistory |-> EmptyMap]

\* a schema-1 document: no schemaVersion, bestStreak or streakFreezes, the lecture
\* without revisionCount and notes, its XP not yet counted, its level out of date
DocOld ==
  [weeks |-> << [weekId |-> 101, weekName |-> "a",
                 lectures |-> << [lectureId |-> 102, lectureName |-> "a", watched |-> TRUE,
                                  memoryNote |-> FALSE, activityTotal |-> 0,
                                  activityDone |-> 0, finalNote |-> FALSE, xpEarned |-> 0] >>,
                 practiceAssignment |-> [totalQuestions |-> 0, doneQuestions |-> 0],
                 gradedAssignment |-> [totalQuestions |-> 0, doneQuestions |-> 0],
                 weeklyMemoryNote |-> FALSE, weeklyFinalNote |-> FALSE,
                 weekCompleted |-> FALSE, xpEarned |-> 0] >>,
   totalXP |-> 0, level |-> 3, streak |-> 3, lastActiveDate |-> Null, xpHistory |-> EmptyMap]

\* a document an earlier session saved: one week whose one lecture has its three
\* core actions done, the week not marked complete, its 17 XP earned on lastDay
Saved(freezes, lastDay) ==
  [schemaVersion |-> 4,
   weeks |-> << [weekId |-> 101, weekName |-> "a",
                 lectures |-> << [lectureId |-> 102, lectureName |-> "a", watched |-> TRUE,
                                  memoryNote |-> TRUE, activityTotal |-> 0,
                                  activityDone |-> 0, finalNote |-> TRUE,
                                  revisionCount |-> 0, notes |-> "", xpEarned |-> 17] >>,
                 practiceAssignment |-> [totalQuestions |-> 0, doneQuestions |-> 0],
                 gradedAssignment |-> [totalQuestions |-> 0, doneQuestions |-> 0],
                 weeklyMemoryNote |-> FALSE, weeklyFinalNote |-> FALSE,
                 weekCompleted |-> FALSE, xpEarned |-> 17] >>,
   totalXP |-> 17, level |-> 1, streak |-> 2, bestStreak |-> 3, streakFreezes |-> freezes,
   lastActiveDate |-> lastDay, xpHistory |-> [k \in {lastDay} |-> 17]]

\* the day before the first date of the clock
Eve == PrevDay(Dates[1])

\* a file that is no backup of this application
DocForeign == [name |-> "a"]

ImportFiles == {BackupText(DocEdited), BackupText(DocOld), BackupText(DocForeign)}

\* files that are no backup at all: text that is not JSON, the JSON texts null
\* and 7, an array, an object whose weeks is a string, and objects whose
\* totalXP is a string or missing
BrokenFiles ==
  {FileText(FALSE, FALSE, FALSE, FALSE, [name |-> "a"]),
   FileText(TRUE, FALSE, FALSE, FALSE, [name |-> "a"]),
   FileText(TRUE, TRUE, FALSE, FALSE, [name |-> "a"]),
   FileText(TRUE, TRUE, FALSE, TRUE, [totalXP |-> 7]),
   FileText(TRUE, TRUE, TRUE, FALSE, [weeks |-> <<>>])}

\* the text a user types into a prompt
PromptTexts == {"a"}
\* the text of a lecture's quick notes
NoteTexts == {"n"}

----------------------------------------------------------------------------
(* app.js: factories and helpers *)

MakeWeek(id, name) ==
  [weekId |-> id, weekName |-> name, lectures |-> <<>>,
   practiceAssignment |-> [totalQuestions |-> 0, doneQuestions |-> 0],
   gradedAssignment |-> [totalQuestions |-> 0, doneQuestions |-> 0],
   weeklyMemoryNote |-> FALSE, weeklyFinalNote |-> FALSE, weekCompleted |-> FALSE,
   xpEarned |-> 0]

MakeLecture(id, name) ==
  [lectureId |-> id, lectureName |-> name, watched |-> FALSE, memoryNote |-> FALSE,
   activityTotal |-> 0, activityDone |-> 0, finalNote |-> FALSE, revisionCount |-> 0,
   notes |-> "", xpEarned |-> 0]

\* findWeek: the index of the week in program.weeks, 0 for null
\* findWeek falling back on the first week
FindWeek_FirstIfMissing(p, wid) ==
  IF \E i \in 1..Len(p.weeks) : p.weeks[i].weekId = wid
  THEN CHOOSE i \in 1..Len(p.weeks) :
         p.weeks[i].weekId = wid /\ \A j \in 1..(i - 1) : p.weeks[j].weekId # wid
  ELSE IF Len(p.weeks) > 0 THEN 1 ELSE 0

FindWeek(p, wid) ==
  IF \E i \in 1..Len(p.weeks) : p.weeks[i].weekId = wid
  THEN CHOOSE i \in 1..Len(p.weeks) :
         p.weeks[i].weekId = wid /\ \A j \in 1..(i - 1) : p.weeks[j].weekId # wid
  ELSE 0

\* findLecture: the index of the lecture in its week's lectures, 0 for null
FindLecture(p, wid, lid) ==
  LET wi == FindWeek(p, wid)
  IN IF wi = 0 THEN 0
     ELSE LET ls == p.weeks[wi].lectures
          IN IF \E j \in 1..Len(ls) : ls[j].lectureId = lid
             THEN CHOOSE j \in 1..Len(ls) :
                    ls[j].lectureId = lid /\ \A k \in 1..(j - 1) : ls[k].lectureId # lid
             ELSE 0

\* toggle(set, key)
Toggle(set, key) == IF key \in set THEN set \ {key} ELSE set \cup {key}

\* syncXP leaving program.level as it was
SyncXP_KeepsLevel(p) ==
  LET total == RecalculateTotalXP(p.weeks)
  IN [program |-> [p EXCEPT !.weeks = RecalcWeeks(p.weeks), !.totalXP = total],
      gained  |-> Max(0, total - p.totalXP)]

\* syncXP never lowering program.totalXP
SyncXP_NeverLowers(p) ==
  LET total == Max(p.totalXP, RecalculateTotalXP(p.weeks))
  IN [program |-> [p EXCEPT !.weeks = RecalcWeeks(p.weeks), !.totalXP = total,
                            !.level = GetLevel(total)],
      gained  |-> Max(0, total - p.totalXP)]

\* syncXP: the Program it leaves and the gain it returns
SyncXP(p) ==
  LET total == RecalculateTotalXP(p.weeks)
  IN [program |-> [p EXCEPT !.weeks = RecalcWeeks(p.weeks), !.totalXP = total,
                            !.level = GetLevel(total)],
      gained  |-> Max(0, total - p.totalXP)]

\* the date 365 days before today
YearBefore(today) ==
  LET c0 == IF today[2] = 2 /\ today[3] = 29 THEN <<today[1] - 1, 3, 1>>
            ELSE <<today[1] - 1, today[2], today[3]>>
  IN IF DayNumber(today) - DayNumber(c0) = 365 THEN c0 ELSE NextDay(c0)

\* recordXP's cutoffStr: 365 local days before now, read as a UTC date
CutoffDate(today) ==
  LET c == YearBefore(today)
  IN CASE Slips[clock] = 0 -> c
       [] Slips[clock] < 0 -> PrevDay(c)
       [] OTHER            -> NextDay(c)

\* recordXP writing the gain over today's entry
RecordXP_Overwrites(p, gained, today) ==
  IF gained <= 0 THEN p
  ELSE LET hist   == p.xpHistory
           added  == [k \in DOMAIN hist \cup {today} |->
                        IF k = today THEN gained ELSE hist[k]]
           kept   == {k \in DOMAIN added : ~DateLess(k, CutoffDate(today))}
       IN [p EXCEPT !.xpHistory = [k \in kept |-> added[k]]]

\* recordXP: today's entry raised by the gain, entries before the cutoff deleted
\* recordXP recording only the first gain of a date
RecordXP_FirstOfDay(p, gained, today) ==
  IF gained <= 0 \/ today \in DOMAIN p.xpHistory THEN p
  ELSE LET hist   == p.xpHistory
           added  == [k \in DOMAIN hist \cup {today} |->
                        IF k = today THEN gained ELSE hist[k]]
           kept   == {k \in DOMAIN added : ~DateLess(k, CutoffDate(today))}
       IN [p EXCEPT !.xpHistory = [k \in kept |-> added[k]]]

RecordXP(p, gained, today) ==
  IF gained <= 0 THEN p
  ELSE LET hist   == p.xpHistory
           before == IF today \in DOMAIN hist THEN hist[today] ELSE 0
           added  == [k \in DOMAIN hist \cup {today} |->
                        IF k = today THEN before + gained ELSE hist[k]]
           kept   == {k \in DOMAIN added : ~DateLess(k, CutoffDate(today))}
       IN [p EXCEPT !.xpHistory = [k \in kept |-> added[k]]]

\* xpCommit applying the streak transition before it recomputes
XpCommit_WithStreak(p) ==
  LET r  == UpdateStreak(p, TodayISO)
      p1 == [p EXCEPT !.streak = r.streak, !.bestStreak = r.bestStreak,
                      !.lastActiveDate = r.lastActiveDate,
                      !.streakFreezes = r.streakFreezes]
      s  == SyncXP(p1)
  IN RecordXP(s.program, s.gained, TodayISO)

\* the Program xpCommit leaves: syncXP, then recordXP
XpCommit(p) ==
  LET s == SyncXP(p) IN RecordXP(s.program, s.gained, TodayISO)

----------------------------------------------------------------------------
(* What the bounds count *)

Bit(b) == IF b THEN 1 ELSE 0

LectureMarks(lec) == Bit(lec.watched) + Bit(lec.memoryNote) + Bit(lec.finalNote)

LectureUnits(lec) ==
  lec.activityTotal + OrZero(lec, "revisionCount") + Bit(Has(lec, "notes") /\ lec.notes # "")

WeekMarks(week) ==
    Bit(week.weeklyMemoryNote) + Bit(week.weeklyFinalNote) + Bit(week.weekCompleted)
  + SumSeq([i \in 1..Len(week.lectures) |-> LectureMarks(week.lectures[i])])

WeekUnits(week) ==
    week.practiceAssignment.totalQuestions + week.gradedAssignment.totalQuestions
  + SumSeq([i \in 1..Len(week.lectures) |-> LectureUnits(week.lectures[i])])

Marks(p) == SumSeq([i \in 1..Len(p.weeks) |-> WeekMarks(p.weeks[i])])
Units(p) == SumSeq([i \in 1..Len(p.weeks) |-> WeekUnits(p.weeks[i])])

\* the weeks and lectures a Program holds
Entities(p) == Len(p.weeks) + SumSeq([i \in 1..Len(p.weeks) |-> Len(p.weeks[i].lectures)])

\* the largest XP xpHistory records for a day
DayXP(p) ==
  IF DOMAIN p.xpHistory = {} THEN 0
  ELSE CHOOSE x \in {p.xpHistory[k] : k \in DOMAIN p.xpHistory} :
         \A k \in DOMAIN p.xpHistory : p.xpHistory[k] <= x

\* the identifiers a dispatch may carry: every one handed out or imported
WeekIdsOf(p) == {p.weeks[i].weekId : i \in 1..Len(p.weeks)}
LectureIdsOf(p) ==
  UNION {{p.weeks[i].lectures[j].lectureId : j \in 1..Len(p.weeks[i].lectures)} :
           i \in 1..Len(p.weeks)}

----------------------------------------------------------------------------
(* app.js: the orchestrator *)

NoModal == [kind |-> "none", action |-> "", weekId |-> 0, lectureId |-> 0, doc |-> NoDoc]
Modal(kind, action, wid, lid, doc) ==
  [kind |-> kind, action |-> action, weekId |-> wid, lectureId |-> lid, doc |-> doc]

Running == program # Undefined
Idle == Running /\ modal.kind = "none"

\* what the handler that ran last was and did
Ran(name, target, effects) == last' = [name |-> name, effects |-> effects]

XpCommitEffects == <<"syncXP", "recordXP">> \o SaveEffects \o <<"render">>
CommitEffects == XpCommitEffects \o <<"toast">>

\* xpCommit() undoing the mutation when the save fails
Committed_RollsBack(p1) ==
  LET p2 == XpCommit(p1)
  IN /\ program' = IF storage = "ok" THEN p2 ELSE program
     /\ stored' = SaveProgram(stored, p2)

\* xpCommit() on the mutated Program p1: recompute, record, save, render
Committed(p1) ==
  LET p2 == XpCommit(p1)
  IN /\ program' = p2
     /\ stored' = SaveProgram(stored, p2)

Init ==
  /\ program = Undefined
  /\ stored = NoDoc
  /\ clock = 1
  /\ nextId = 1
  /\ modal = NoModal
  /\ expandedWeeks = {}
  /\ expandedLectures = {}
  /\ last = [name |-> "", effects |-> <<>>]
  /\ storage = "ok"
  /\ h = <<>>

\* the device clock reaches the next date
Tick ==
  /\ clock < Len(Dates)
  /\ clock' = clock + 1
  /\ UNCHANGED <<program, stored, nextId, modal, expandedWeeks, expandedLectures, last, h, storage>>

\* initApp, at page load: a new session
InitApp ==
  LET p0 == LoadProgram(stored)
      r  == UpdateStreak(p0, TodayISO)
      p1 == [p0 EXCEPT !.streak = r.streak, !.bestStreak = r.bestStreak,
                       !.lastActiveDate = r.lastActiveDate,
                       !.streakFreezes = r.streakFreezes]
      p2 == SyncXP(p1).program
  IN /\ program' = p2
     /\ stored' = SaveProgram(stored, p2)
     /\ modal' = NoModal
     /\ expandedWeeks' = {}
     /\ expandedLectures' = {}
     /\ last' = [name |-> "initApp",
                 effects |-> <<"load", "updateStreak">>
                             \o (IF r.freezeUsed THEN <<"toast">> ELSE <<>>)
                             \o <<"syncXP">> \o SaveEffects \o <<"render">>]
     /\ UNCHANGED <<clock, nextId, h, storage>>

\* a handler that opens a modal and returns
OpenModal(name, m) ==
  /\ modal' = m
  /\ Ran(name, <<>>, <<"modal">>)
  /\ UNCHANGED <<program, stored, clock, nextId, expandedWeeks, expandedLectures, h, storage>>

\* a handler that returns at once: its week or lecture was not found
NotFound(name) ==
  /\ Ran(name, <<>>, <<>>)
  /\ UNCHANGED <<program, stored, clock, nextId, modal, expandedWeeks, expandedLectures, h, storage>>

ADD_WEEK ==
  /\ Idle
  /\ OpenModal("ADD_WEEK", Modal("prompt", "ADD_WEEK", 0, 0, NoDoc))

AddWeekConfirmed(name) ==
  /\ Running /\ modal.action = "ADD_WEEK"
  /\ Committed([program EXCEPT !.weeks = Append(@, MakeWeek(nextId, name))])
  /\ nextId' = nextId + 1
  /\ expandedWeeks' = expandedWeeks \cup {nextId}
  /\ modal' = NoModal
  /\ Ran("ADD_WEEK.confirm", <<nextId>>, CommitEffects)
  /\ UNCHANGED <<clock, expandedLectures, h, storage>>

EDIT_WEEK_NAME(wid) ==
  /\ Idle
  /\ IF FindWeek(program, wid) = 0 THEN NotFound("EDIT_WEEK_NAME")
     ELSE OpenModal("EDIT_WEEK_NAME", Modal("prompt", "EDIT_WEEK_NAME", wid, 0, NoDoc))

\* the callback writes the week object it captured; a week no longer in
\* program.weeks is written without effect on the Program
EditWeekNameConfirmed(name) ==
  /\ Running /\ modal.action = "EDIT_WEEK_NAME"
  /\ LET wi == FindWeek(program, modal.weekId)
     IN Committed(IF wi = 0 THEN program
                  ELSE [program EXCEPT !.weeks[wi].weekName = name])
  /\ modal' = NoModal
  /\ Ran("EDIT_WEEK_NAME.confirm", <<modal.weekId>>, CommitEffects)
  /\ UNCHANGED <<clock, nextId, expandedWeeks, expandedLectures, h, storage>>

DELETE_WEEK(wid) ==
  /\ Idle
  /\ IF FindWeek(program, wid) = 0 THEN NotFound("DELETE_WEEK")
     ELSE OpenModal("DELETE_WEEK", Modal("confirm", "DELETE_WEEK", wid, 0, NoDoc))

DeleteWeekConfirmed ==
  /\ Running /\ modal.action = "DELETE_WEEK"
  /\ Committed([program EXCEPT
                  !.weeks = SelectSeq(@, LAMBDA x : x.weekId # modal.weekId)])
  /\ expandedWeeks' = expandedWeeks \ {modal.weekId}
  /\ modal' = NoModal
  /\ Ran("DELETE_WEEK.confirm", <<modal.weekId>>, CommitEffects)
  /\ UNCHANGED <<clock, nextId, expandedLectures, h, storage>>

\* TOGGLE_WEEK ending in xpCommit like the data handlers
TOGGLE_WEEK_Commits(wid) ==
  /\ Idle
  /\ expandedWeeks' = Toggle(expandedWeeks, wid)
  /\ Committed(program)
  /\ Ran("TOGGLE_WEEK", <<wid>>, XpCommitEffects)
  /\ UNCHANGED <<clock, nextId, modal, expandedLectures, h, storage>>

TOGGLE_WEEK(wid) ==
  /\ Idle
  /\ expandedWeeks' = Toggle(expandedWeeks, wid)
  /\ Ran("TOGGLE_WEEK", <<wid>>, <<"render">>)
  /\ UNCHANGED <<program, stored, clock, nextId, modal, expandedLectures, h, storage>>

ADD_LECTURE(wid) ==
  /\ Idle
  /\ IF FindWeek(program, wid) = 0 THEN NotFound("ADD_LECTURE")
     ELSE OpenModal("ADD_LECTURE", Modal("prompt", "ADD_LECTURE", wid, 0, NoDoc))

AddLectureConfirmed(name) ==
  /\ Running /\ modal.action = "ADD_LECTURE"
  /\ LET wi == FindWeek(program, modal.weekId)
     IN Committed(IF wi = 0 THEN program
                  ELSE [program EXCEPT
                          !.weeks[wi].lectures = Append(@, MakeLecture(nextId, name))])
  /\ nextId' = nextId + 1
  /\ expandedWeeks' = expandedWeeks \cup {modal.weekId}
  /\ modal' = NoModal
  /\ Ran("ADD_LECTURE.confirm", <<modal.weekId, nextId>>, CommitEffects)
  /\ UNCHANGED <<clock, expandedLectures, h, storage>>

RENAME_LECTURE(wid, lid) ==
  /\ Idle
  /\ IF FindLecture(program, wid, lid) = 0 THEN NotFound("RENAME_LECTURE")
     ELSE OpenModal("RENAME_LECTURE", Modal("prompt", "RENAME_LECTURE", wid, lid, NoDoc))

RenameLectureConfirmed(name) ==
  /\ Running /\ modal.action = "RENAME_LECTURE"
  /\ LET wi == FindWeek(program, modal.weekId)
         li == FindLecture(program, modal.weekId, modal.lectureId)
     IN Committed(IF li = 0 THEN program
                  ELSE [program EXCEPT !.weeks[wi].lectures[li].lectureName = name])
  /\ modal' = NoModal
  /\ Ran("RENAME_LECTURE.confirm", <<modal.weekId, modal.lectureId>>, CommitEffects)
  /\ UNCHANGED <<clock, nextId, expandedWeeks, expandedLectures, h, storage>>

DELETE_LECTURE(wid, lid) ==
  /\ Idle
  /\ IF FindLecture(program, wid, lid) = 0 THEN NotFound("DELETE_LECTURE")
     ELSE OpenModal("DELETE_LECTURE", Modal("confirm", "DELETE_LECTURE", wid, lid, NoDoc))

\* the callback of DELETE_LECTURE without its re-check of weekCompleted
DeleteLectureFrom_NoRecheck(week, lid) ==
  [week EXCEPT !.lectures = SelectSeq(@, LAMBDA l : l.lectureId # lid)]

\* the week as the callback of DELETE_LECTURE leaves it: the lecture filtered
\* out, then weekCompleted cleared when the week is no longer core-complete
DeleteLectureFrom(week, lid) ==
  LET w1 == [week EXCEPT !.lectures = SelectSeq(@, LAMBDA l : l.lectureId # lid)]
  IN IF w1.weekCompleted /\ ~IsWeekCoreComplete(w1)
     THEN [w1 EXCEPT !.weekCompleted = FALSE] ELSE w1

DeleteLectureConfirmed ==
  /\ Running /\ modal.action = "DELETE_LECTURE"
  /\ LET wi == FindWeek(program, modal.weekId)
     IN Committed(IF wi = 0 THEN program
                  ELSE [program EXCEPT
                          !.weeks[wi] = DeleteLectureFrom(@, modal.lectureId)])
  /\ expandedLectures' = expandedLectures \ {modal.lectureId}
  /\ modal' = NoModal
  /\ LET wi == FindWeek(program, modal.weekId)
     IN Ran("DELETE_LECTURE.confirm", <<modal.weekId, modal.lectureId>>,
            (IF wi # 0 /\ program.weeks[wi].weekCompleted
                /\ ~DeleteLectureFrom(program.weeks[wi], modal.lectureId).weekCompleted
             THEN <<"uncomplete">> ELSE <<>>) \o CommitEffects)
  /\ UNCHANGED <<clock, nextId, expandedWeeks, h, storage>>

TOGGLE_LECTURE(lid) ==
  /\ Idle
  /\ expandedLectures' = Toggle(expandedLectures, lid)
  /\ Ran("TOGGLE_LECTURE", <<lid>>, <<"render">>)
  /\ UNCHANGED <<program, stored, clock, nextId, modal, expandedWeeks, h, storage>>

\* the debounced auto-save of a lecture's notes: a timer, not a click
SAVE_LECTURE_NOTE(wid, lid, text) ==
  /\ Running
  /\ LET wi == FindWeek(program, wid)
         li == FindLecture(program, wid, lid)
     IN IF li = 0 THEN NotFound("SAVE_LECTURE_NOTE")
        ELSE LET p1 == [program EXCEPT !.weeks[wi].lectures[li] = Put(@, "notes", text)]
             IN /\ program' = p1
                /\ stored' = SaveProgram(stored, p1)
                /\ Ran("SAVE_LECTURE_NOTE", <<wid, lid>>, SaveEffects)
                /\ UNCHANGED <<clock, nextId, modal, expandedWeeks, expandedLectures, h, storage>>

CoreFields == {"watched", "memoryNote", "finalNote"}

\* the Program LECTURE_TOGGLE hands to xpCommit
LectureToggled(p, wi, li, field, value) ==
  LET p1 == [p EXCEPT !.weeks[wi].lectures[li] = Put(@, field, value)]
  IN IF ~value /\ field \in CoreFields /\ p1.weeks[wi].weekCompleted
     THEN [p1 EXCEPT !.weeks[wi].weekCompleted = FALSE] ELSE p1

LECTURE_TOGGLE(wid, lid, field, value) ==
  /\ Idle
  /\ LET wi == FindWeek(program, wid)
         li == FindLecture(program, wid, lid)
     IN IF li = 0 THEN NotFound("LECTURE_TOGGLE")
        ELSE /\ Committed(LectureToggled(program, wi, li, field, value))
             /\ Ran("LECTURE_TOGGLE", <<wid, lid, field, value>>,
                    (IF ~value /\ field \in CoreFields /\ program.weeks[wi].weekCompleted
                     THEN <<"toast">> ELSE <<>>) \o XpCommitEffects)
             /\ UNCHANGED <<clock, nextId, modal, expandedWeeks, expandedLectures, h, storage>>

LectureSteps == {"actTotal-inc", "actTotal-dec", "actDone-inc", "actDone-dec",
                 "rev-inc", "rev-dec"}

\* the lecture after one stepper action
\* the stepper whose actTotal-dec leaves activityDone alone
LectureStepped_KeepsDone(lec, action) ==
  CASE action = "actTotal-inc" -> [lec EXCEPT !.activityTotal = @ + 1]
    [] action = "actTotal-dec" -> [lec EXCEPT !.activityTotal = Max(0, @ - 1)]
    [] action = "actDone-inc" ->
         IF lec.activityDone < lec.activityTotal
         THEN [lec EXCEPT !.activityDone = @ + 1] ELSE lec
    [] action = "actDone-dec" ->
         IF lec.activityDone > 0 THEN [lec EXCEPT !.activityDone = @ - 1] ELSE lec
    [] action = "rev-inc" -> Put(lec, "revisionCount", OrZero(lec, "revisionCount") + 1)
    [] action = "rev-dec" ->
         Put(lec, "revisionCount", Max(0, OrZero(lec, "revisionCount") - 1))
    [] OTHER -> lec

LectureStepped(lec, action) ==
  CASE action = "actTotal-inc" -> [lec EXCEPT !.activityTotal = @ + 1]
    [] action = "actTotal-dec" ->
         LET t == Max(0, lec.activityTotal - 1)
         IN [lec EXCEPT !.activityTotal = t, !.activityDone = Min(@, t)]
    [] action = "actDone-inc" ->
         IF lec.activityDone < lec.activityTotal
         THEN [lec EXCEPT !.activityDone = @ + 1] ELSE lec
    [] action = "actDone-dec" ->
         IF lec.activityDone > 0 THEN [lec EXCEPT !.activityDone = @ - 1] ELSE lec
    [] action = "rev-inc" -> Put(lec, "revisionCount", OrZero(lec, "revisionCount") + 1)
    [] action = "rev-dec" ->
         Put(lec, "revisionCount", Max(0, OrZero(lec, "revisionCount") - 1))
    [] OTHER -> lec

LECTURE_STEP(wid, lid, action) ==
  /\ Idle
  /\ LET wi == FindWeek(program, wid)
         li == FindLecture(program, wid, lid)
     IN IF li = 0 THEN NotFound("LECTURE_STEP")
        ELSE /\ Committed([program EXCEPT
                             !.weeks[wi].lectures[li] = LectureStepped(@, action)])
             /\ Ran("LECTURE_STEP", <<wid, lid, action>>, XpCommitEffects)
             /\ UNCHANGED <<clock, nextId, modal, expandedWeeks, expandedLectures, h, storage>>

AssignmentSteps == {"total-inc", "total-dec", "done-inc", "done-dec"}

\* the assignment after one stepper action
AssignmentStepped(a, dir) ==
  CASE dir = "total-inc" -> [a EXCEPT !.totalQuestions = @ + 1]
    [] dir = "total-dec" ->
         LET t == Max(0, a.totalQuestions - 1)
         IN [a EXCEPT !.totalQuestions = t, !.doneQuestions = Min(@, t)]
    [] dir = "done-inc" ->
         IF a.doneQuestions < a.totalQuestions
         THEN [a EXCEPT !.doneQuestions = @ + 1] ELSE a
    [] dir = "done-dec" ->
         IF a.doneQuestions > 0 THEN [a EXCEPT !.doneQuestions = @ - 1] ELSE a
    [] OTHER -> a

ASSIGNMENT_STEP(wid, type, dir) ==
  /\ Idle
  /\ LET wi == FindWeek(program, wid)
     IN IF wi = 0 THEN NotFound("ASSIGNMENT_STEP")
        ELSE /\ Committed(IF type = "practice"
                          THEN [program EXCEPT !.weeks[wi].practiceAssignment =
                                                  AssignmentStepped(@, dir)]
                          ELSE [program EXCEPT !.weeks[wi].gradedAssignment =
                                                  AssignmentStepped(@, dir)])
             /\ Ran("ASSIGNMENT_STEP", <<wid, type, dir>>, XpCommitEffects)
             /\ UNCHANGED <<clock, nextId, modal, expandedWeeks, expandedLectures, h, storage>>

WeekFields == {"weeklyMemoryNote", "weeklyFinalNote", "weekCompleted"}

\* the gate of WEEK_TOGGLE looking only for a week without lectures
WeekToggleRejected_EmptyOnly(week, field, value) ==
  field = "weekCompleted" /\ value /\ Len(week.lectures) = 0

\* WEEK_TOGGLE turns the action down: weekCompleted asked of a week whose core
\* actions are not all done
WeekToggleRejected(week, field, value) ==
  field = "weekCompleted" /\ value /\ ~IsWeekCoreComplete(week)

\* the freeze earned without looking at MAX_FREEZES
FreezesEarned_NoCap(p, field, value) ==
  IF field = "weekCompleted" /\ value
  THEN OrZero(p, "streakFreezes") + 1
  ELSE p.streakFreezes

\* program.streakFreezes after an accepted WEEK_TOGGLE
FreezesEarned(p, field, value) ==
  IF field = "weekCompleted" /\ value /\ OrZero(p, "streakFreezes") < MAX_FREEZES
  THEN OrZero(p, "streakFreezes") + 1
  ELSE p.streakFreezes

\* the Program an accepted WEEK_TOGGLE hands to xpCommit
WeekToggled(p, wi, field, value) ==
  [p EXCEPT !.weeks[wi] = Put(@, field, value),
            !.streakFreezes = FreezesEarned(p, field, value)]

WEEK_TOGGLE(wid, field, value) ==
  /\ Idle
  /\ LET wi == FindWeek(program, wid)
     IN IF wi = 0 THEN NotFound("WEEK_TOGGLE")
        ELSE IF WeekToggleRejected(program.weeks[wi], field, value)
        THEN /\ Ran("WEEK_TOGGLE", <<wid, 0, field, value>>, <<"toast", "render">>)
             /\ UNCHANGED <<program, stored, clock, nextId, modal, expandedWeeks,
                            expandedLectures, h, storage>>
        ELSE /\ Committed(WeekToggled(program, wi, field, value))
             /\ Ran("WEEK_TOGGLE", <<wid, 0, field, value>>,
                    XpCommitEffects \o (IF field = "weekCompleted" /\ value
                                        THEN <<"toast">> ELSE <<>>))
             /\ UNCHANGED <<clock, nextId, modal, expandedWeeks, expandedLectures, h, storage>>

\* Cancel, Escape or a click on the overlay: removeModal()
CancelModal ==
  /\ Running /\ modal.kind # "none"
  /\ modal' = NoModal
  /\ Ran("removeModal", <<>>, <<>>)
  /\ UNCHANGED <<program, stored, clock, nextId, expandedWeeks, expandedLectures, h, storage>>

\* reader.onload replacing the Program at once, without the confirm modal
ImportFileLoaded_NoConfirm(file) ==
  /\ Running
  /\ LET result == ParseImportedBackup(file)
     IN IF ~result.ok
        THEN /\ Ran("IMPORT.onload", <<>>, <<"parse", "toast">>)
             /\ UNCHANGED <<program, stored>>
        ELSE /\ Ran("IMPORT.onload", <<>>, <<"parse", "migrate">>)
             /\ program' = SyncXP(result.program).program
             /\ stored' = SaveProgram(stored, result.program)
  /\ UNCHANGED <<modal, clock, nextId, expandedWeeks, expandedLectures, h, storage>>

\* reader.onload of the import file input
ImportFileLoaded(file) ==
  /\ Running
  /\ LET result == ParseImportedBackup(file)
     IN IF ~result.ok
        THEN /\ Ran("IMPORT.onload", <<>>, <<"parse", "toast">>)
             /\ UNCHANGED modal
        ELSE /\ Ran("IMPORT.onload", <<>>, <<"parse", "migrate", "modal">>)
             /\ modal' = Modal("confirm", "IMPORT", 0, 0, result.program)
  /\ UNCHANGED <<program, stored, clock, nextId, expandedWeeks, expandedLectures, h, storage>>

\* the confirm callback of an import: replace, save, syncXP, render
ImportConfirmed ==
  /\ Running /\ modal.action = "IMPORT"
  /\ program' = SyncXP(modal.doc).program
  /\ stored' = SaveProgram(stored, modal.doc)
  /\ modal' = NoModal
  /\ Ran("IMPORT.confirm", <<>>, SaveEffects \o <<"syncXP", "render", "toast">>)
  /\ UNCHANGED <<clock, nextId, expandedWeeks, expandedLectures, h, storage>>

----------------------------------------------------------------------------
(* Specifications: what a user does, within the bounds *)

\* the identifiers a click may carry: those of the weeks and lectures rendered
Weeks == IF Running THEN WeekIdsOf(program) ELSE {}
Lectures == IF Running THEN LectureIdsOf(program) ELSE {}

\* the first page load
Boot == ~Running /\ InitApp

\* the bounds of a session in which every handler runs
AllBounds ==
  /\ nextId <= MaxIds + 1
  /\ Entities(program) <= MaxIds
  /\ Len(program.weeks) <= MaxWeeks
  /\ Marks(program) + Units(program) <= MaxSize
  /\ DayXP(program) <= MaxDayXP

\* the bounds of a session of ticking boxes
GateBounds ==
  /\ nextId <= MaxGateIds + 1
  /\ Len(program.weeks) <= MaxWeeks
  /\ Marks(program) <= MaxMarks
  /\ DayXP(program) <= MaxGateDayXP

\* one session in which every handler that writes the Program runs
Next ==
  \/ Boot
  \/ ADD_WEEK
  \/ \E name \in PromptTexts : AddWeekConfirmed(name) /\ AllBounds'
  \/ \E wid \in Weeks : EDIT_WEEK_NAME(wid)
  \/ \E name \in PromptTexts : EditWeekNameConfirmed(name) /\ AllBounds'
  \/ \E wid \in Weeks : DELETE_WEEK(wid)
  \/ DeleteWeekConfirmed /\ AllBounds'
  \/ \E wid \in Weeks : ADD_LECTURE(wid)
  \/ \E name \in PromptTexts : AddLectureConfirmed(name) /\ AllBounds'
  \/ \E wid \in Weeks, lid \in Lectures : RENAME_LECTURE(wid, lid)
  \/ \E name \in PromptTexts : RenameLectureConfirmed(name) /\ AllBounds'
  \/ \E wid \in Weeks, lid \in Lectures : DELETE_LECTURE(wid, lid)
  \/ DeleteLectureConfirmed /\ AllBounds'
  \/ \E wid \in Weeks, lid \in Lectures, text \in NoteTexts :
       SAVE_LECTURE_NOTE(wid, lid, text) /\ AllBounds'
  \/ \E wid \in Weeks, lid \in Lectures, field \in CoreFields, value \in BOOLEAN :
       LECTURE_TOGGLE(wid, lid, field, value) /\ AllBounds'
  \/ \E wid \in Weeks, lid \in Lectures, action \in LectureSteps :
       LECTURE_STEP(wid, lid, action) /\ AllBounds'
  \/ \E wid \in Weeks, type \in {"practice", "graded"}, dir \in AssignmentSteps :
       ASSIGNMENT_STEP(wid, type, dir) /\ AllBounds'
  \/ \E wid \in Weeks, field \in WeekFields, value \in BOOLEAN :
       WEEK_TOGGLE(wid, field, value) /\ AllBounds'
  \/ CancelModal
  \/ \E file \in ImportFiles : Idle /\ Entities(program) = 0 /\ ImportFileLoaded(file)
  \/ ImportConfirmed /\ AllBounds'

Spec == Init /\ [][Next]_vars

\* one session of ticking boxes and completing a week
NextGate ==
  \/ Boot
  \/ ADD_WEEK
  \/ \E name \in PromptTexts : AddWeekConfirmed(name) /\ GateBounds'
  \/ \E wid \in Weeks : ADD_LECTURE(wid)
  \/ \E name \in PromptTexts : AddLectureConfirmed(name) /\ GateBounds'
  \/ \E wid \in Weeks, lid \in Lectures : DELETE_LECTURE(wid, lid)
  \/ DeleteLectureConfirmed /\ GateBounds'
  \/ \E wid \in Weeks, lid \in Lectures, field \in CoreFields, value \in BOOLEAN :
       LECTURE_TOGGLE(wid, lid, field, value) /\ GateBounds'
  \/ \E wid \in Weeks, field \in WeekFields, value \in BOOLEAN :
       WEEK_TOGGLE(wid, field, value) /\ GateBounds'
  \/ CancelModal

SpecGate == Init /\ [][NextGate]_vars

----------------------------------------------------------------------------
(* A session on a saved Program: completing its week, again and again *)

\* the XP xpHistory records for one day
MaxFreezeDayXP == 30

FreezeBounds == DayXP(program) <= MaxFreezeDayXP

InitFreeze ==
  /\ program = Undefined
  /\ stored \in {JSONStringify(Saved(f, Eve)) : f \in 0..MAX_FREEZES}
  /\ clock = 1
  /\ nextId = 1
  /\ modal = NoModal
  /\ expandedWeeks = {}
  /\ expandedLectures = {}
  /\ last = [name |-> "", effects |-> <<>>]
  /\ storage = "ok"
  /\ h = <<>>

NextFreeze ==
  \/ Boot
  \/ \E wid \in Weeks, field \in WeekFields, value \in BOOLEAN :
       WEEK_TOGGLE(wid, field, value) /\ FreezeBounds'
  \/ \E wid \in Weeks, lid \in Lectures, field \in CoreFields, value \in BOOLEAN :
       LECTURE_TOGGLE(wid, lid, field, value) /\ FreezeBounds'
  \/ \E wid \in Weeks, lid \in Lectures : DELETE_LECTURE(wid, lid)
  \/ DeleteLectureConfirmed /\ FreezeBounds'
  \/ CancelModal

SpecFreeze == InitFreeze /\ [][NextFreeze]_vars

\* the same session started on a document with no freeze, whose one week was
\* never marked complete
InitRemark ==
  /\ program = Undefined
  /\ stored = JSONStringify(Saved(0, Eve))
  /\ clock = 1
  /\ nextId = 1
  /\ modal = NoModal
  /\ expandedWeeks = {}
  /\ expandedLectures = {}
  /\ last = [name |-> "", effects |-> <<>>]
  /\ storage = "ok"
  /\ h = <<>>

SpecRemark == InitRemark /\ [][NextFreeze]_vars

----------------------------------------------------------------------------
(* Sessions over several days: the page is loaded, used, left open over
   midnight and loaded again, on documents of this and of older versions *)

\* the dates of the clock the sessions run over
MaxDays == 3
\* the XP gained on one day
MaxTodayXP == 20

\* a schema-1 document of the same content, last used on the first date: it has
\* no schemaVersion, no bestStreak and no streakFreezes
SavedV1 ==
  [k \in DOMAIN Saved(0, Dates[1]) \ {"schemaVersion", "bestStreak", "streakFreezes"} |->
     Saved(0, Dates[1])[k]]

\* a schema-4 document of the same content that lacks bestStreak
SavedBare ==
  [k \in DOMAIN Saved(1, Dates[1]) \ {"bestStreak"} |-> Saved(1, Dates[1])[k]]

\* what localStorage holds at the first page load
StoredDocs ==
  {NoDoc, JSONStringify(SavedV1), JSONStringify(SavedBare)}
    \cup {JSONStringify(Saved(f, Eve)) : f \in 0..2}

\* xpHistory[todayISO()], 0 when there is no entry
TodayXP(p) == IF TodayISO \in DOMAIN p.xpHistory THEN p.xpHistory[TodayISO] ELSE 0

DaysBounds == TodayXP(program) <= MaxTodayXP

InitDays ==
  /\ program = Undefined
  /\ stored \in StoredDocs
  /\ clock = 1
  /\ nextId = 1
  /\ modal = NoModal
  /\ expandedWeeks = {}
  /\ expandedLectures = {}
  /\ last = [name |-> "", effects |-> <<>>]
  /\ storage = "ok"
  /\ h = <<>>

NextDays ==
  \/ InitApp
  \/ Tick /\ clock < MaxDays
  \/ \E wid \in Weeks, lid \in Lectures, value \in BOOLEAN :
       LECTURE_TOGGLE(wid, lid, "watched", value) /\ DaysBounds'
  \/ \E wid \in Weeks, value \in BOOLEAN :
       WEEK_TOGGLE(wid, "weekCompleted", value) /\ DaysBounds'
  \/ Idle /\ ImportFileLoaded(BackupText(DocOld))
  \/ ImportConfirmed
  \/ CancelModal

SpecDays == InitDays /\ [][NextDays]_vars

\* sessions that run on while the date changes, without imports
InitMidnight ==
  /\ program = Undefined
  /\ stored \in {NoDoc, JSONStringify(Saved(1, Eve))}
  /\ clock = 1
  /\ nextId = 1
  /\ modal = NoModal
  /\ expandedWeeks = {}
  /\ expandedLectures = {}
  /\ last = [name |-> "", effects |-> <<>>]
  /\ storage = "ok"
  /\ h = <<>>

NextMidnight ==
  \/ InitApp
  \/ Tick /\ clock < MaxDays
  \/ \E wid \in Weeks, lid \in Lectures, value \in BOOLEAN :
       LECTURE_TOGGLE(wid, lid, "watched", value) /\ DaysBounds'

SpecMidnight == InitMidnight /\ [][NextMidnight]_vars

----------------------------------------------------------------------------
(* Sessions in which backups are exported and files imported *)

InitImport ==
  /\ program = Undefined
  /\ stored \in {NoDoc, JSONStringify(Saved(1, Eve))}
  /\ clock = 1
  /\ nextId = 1
  /\ modal = NoModal
  /\ expandedWeeks = {}
  /\ expandedLectures = {}
  /\ last = [name |-> "", effects |-> <<>>]
  /\ storage = "ok"
  /\ h = <<>>

\* the file picked is one of the files at hand, or the backup just exported
NextImport ==
  \/ InitApp
  \/ \E wid \in Weeks, lid \in Lectures, value \in BOOLEAN :
       LECTURE_TOGGLE(wid, lid, "watched", value) /\ DaysBounds'
  \/ \E wid \in Weeks, value \in BOOLEAN :
       WEEK_TOGGLE(wid, "weekCompleted", value) /\ DaysBounds'
  \/ \E file \in ImportFiles \cup BrokenFiles : Idle /\ ImportFileLoaded(file)
  \/ Idle /\ ImportFileLoaded(ExportBackup(program))
  \/ ImportConfirmed
  \/ CancelModal

SpecImport == InitImport /\ [][NextImport]_vars

----------------------------------------------------------------------------
(* Sessions in which localStorage.setItem fails and works again *)

\* setItem starts throwing: a QuotaExceededError ("full") or any other error
StorageFails(s) ==
  /\ storage = "ok"
  /\ storage' = s
  /\ h' = [unsaved |-> FALSE]
  /\ UNCHANGED <<program, stored, clock, nextId, modal, expandedWeeks, expandedLectures, last>>

\* setItem works again; h notes whether the Program in memory then differed
\* from the document stored
StorageRecovers ==
  /\ storage # "ok"
  /\ storage' = "ok"
  /\ h' = [unsaved |-> Running /\ stored # JSONStringify(program)]
  /\ UNCHANGED <<program, stored, clock, nextId, modal, expandedWeeks, expandedLectures, last>>

InitSave ==
  /\ program = Undefined
  /\ stored = JSONStringify(Saved(1, Eve))
  /\ clock = 1
  /\ nextId = 1
  /\ modal = NoModal
  /\ expandedWeeks = {}
  /\ expandedLectures = {}
  /\ last = [name |-> "", effects |-> <<>>]
  /\ storage \in {"ok", "full", "blocked"}
  /\ h = [unsaved |-> FALSE]

NextSave ==
  \/ InitApp
  \/ \E wid \in Weeks, lid \in Lectures, value \in BOOLEAN :
       LECTURE_TOGGLE(wid, lid, "watched", value) /\ DaysBounds'
  \/ \E wid \in Weeks, value \in BOOLEAN :
       WEEK_TOGGLE(wid, "weekCompleted", value) /\ DaysBounds'
  \/ \E wid \in Weeks, lid \in Lectures, text \in NoteTexts :
       SAVE_LECTURE_NOTE(wid, lid, text)
  \/ \E s \in {"full", "blocked"} : StorageFails(s)
  \/ StorageRecovers

SpecSave == InitSave /\ [][NextSave]_vars

----------------------------------------------------------------------------
(* Sessions in which dispatches carry identifiers that are not in the Program *)

\* the identifiers a dispatch carries: those of the saved week and lecture,
\* which a deletion makes stale, and one that was never handed out
CarriedWeekIds == {101, 100}
CarriedLectureIds == {102, 100}

StaleBounds ==
  /\ TodayXP(program) <= MaxTodayXP
  /\ Units(program) <= MaxSize

NextStale ==
  \/ Boot
  \/ \E wid \in CarriedWeekIds : EDIT_WEEK_NAME(wid)
  \/ \E wid \in CarriedWeekIds : DELETE_WEEK(wid)
  \/ DeleteWeekConfirmed
  \/ \E wid \in CarriedWeekIds : ADD_LECTURE(wid)
  \/ \E wid \in CarriedWeekIds, lid \in CarriedLectureIds : RENAME_LECTURE(wid, lid)
  \/ \E wid \in CarriedWeekIds, lid \in CarriedLectureIds : DELETE_LECTURE(wid, lid)
  \/ DeleteLectureConfirmed
  \/ \E wid \in CarriedWeekIds, lid \in CarriedLectureIds, text \in NoteTexts :
       SAVE_LECTURE_NOTE(wid, lid, text)
  \/ \E wid \in CarriedWeekIds, lid \in CarriedLectureIds, value \in BOOLEAN :
       LECTURE_TOGGLE(wid, lid, "watched", value) /\ StaleBounds'
  \/ \E wid \in CarriedWeekIds, lid \in CarriedLectureIds, action \in {"rev-inc", "rev-dec"} :
       LECTURE_STEP(wid, lid, action) /\ StaleBounds'
  \/ \E wid \in CarriedWeekIds, dir \in {"total-inc", "total-dec"} :
       ASSIGNMENT_STEP(wid, "practice", dir) /\ StaleBounds'
  \/ \E wid \in CarriedWeekIds, value \in BOOLEAN :
       WEEK_TOGGLE(wid, "weekCompleted", value) /\ StaleBounds'
  \/ CancelModal

InitStale ==
  /\ program = Undefined
  /\ stored = JSONStringify(Saved(1, Eve))
  /\ clock = 1
  /\ nextId = 1
  /\ modal = NoModal
  /\ expandedWeeks = {}
  /\ expandedLectures = {}
  /\ last = [name |-> "", effects |-> <<>>]
  /\ storage = "ok"
  /\ h = <<>>

SpecStale == InitStale /\ [][NextStale]_vars

----------------------------------------------------------------------------
(* Sessions of expanding and collapsing cards while weeks and lectures are
   added and deleted *)

\* the identifiers handed out in such a session
MaxExpandIds == 3

ExpandBounds ==
  /\ nextId <= MaxExpandIds + 1
  /\ Len(program.weeks) <= MaxWeeks

NextExpand ==
  \/ Boot
  \/ ADD_WEEK
  \/ \E name \in PromptTexts : AddWeekConfirmed(name) /\ ExpandBounds'
  \/ \E wid \in Weeks : ADD_LECTURE(wid)
  \/ \E name \in PromptTexts : AddLectureConfirmed(name) /\ ExpandBounds'
  \/ \E wid \in Weeks : TOGGLE_WEEK(wid)
  \/ \E lid \in Lectures : TOGGLE_LECTURE(lid)
  \/ \E wid \in Weeks : DELETE_WEEK(wid)
  \/ DeleteWeekConfirmed
  \/ \E wid \in Weeks, lid \in Lectures : DELETE_LECTURE(wid, lid)
  \/ DeleteLectureConfirmed
  \/ CancelModal

SpecExpand == Init /\ [][NextExpand]_vars

----------------------------------------------------------------------------
(* Sessions of stepping the counters of a week and a lecture up and down *)

\* the largest sum of the totals and revision counts of a Program
MaxUnits == 3

StepBounds ==
  /\ nextId <= MaxIds + 1
  /\ Len(program.weeks) <= MaxWeeks
  /\ Units(program) <= MaxUnits
  /\ DayXP(program) <= MaxDayXP

NextSteps ==
  \/ Boot
  \/ ADD_WEEK
  \/ \E name \in PromptTexts : AddWeekConfirmed(name) /\ StepBounds'
  \/ \E wid \in Weeks : ADD_LECTURE(wid)
  \/ \E name \in PromptTexts : AddLectureConfirmed(name) /\ StepBounds'
  \/ \E wid \in Weeks, lid \in Lectures, action \in LectureSteps :
       LECTURE_STEP(wid, lid, action) /\ StepBounds'
  \/ \E wid \in Weeks, type \in {"practice", "graded"}, dir \in AssignmentSteps :
       ASSIGNMENT_STEP(wid, type, dir) /\ StepBounds'
  \/ CancelModal

SpecSteps == Init /\ [][NextSteps]_vars

----------------------------------------------------------------------------
(* Sessions in which note timers fire and file reads complete while a modal
   is open *)

ModalBounds ==
  /\ nextId <= MaxIds + 1
  /\ Entities(program) <= MaxIds + 1

\* a click reaches the page only when no modal covers it; a timer or a file
\* read completes whenever it does
NextModal ==
  \/ Boot
  \/ \E wid \in Weeks : EDIT_WEEK_NAME(wid)
  \/ \E name \in PromptTexts : EditWeekNameConfirmed(name)
  \/ \E wid \in Weeks : ADD_LECTURE(wid)
  \/ \E name \in PromptTexts : AddLectureConfirmed(name) /\ ModalBounds'
  \/ \E wid \in Weeks, lid \in Lectures : RENAME_LECTURE(wid, lid)
  \/ \E name \in PromptTexts : RenameLectureConfirmed(name)
  \/ \E wid \in Weeks, lid \in Lectures : DELETE_LECTURE(wid, lid)
  \/ DeleteLectureConfirmed
  \/ \E wid \in Weeks : DELETE_WEEK(wid)
  \/ DeleteWeekConfirmed
  \/ CancelModal
  \/ \E wid \in CarriedWeekIds, lid \in CarriedLectureIds, text \in NoteTexts :
       SAVE_LECTURE_NOTE(wid, lid, text)
  \/ \E file \in {BackupText(DocEdited), BackupText(DocForeign)} : ImportFileLoaded(file)
  \/ Running /\ ImportFileLoaded(ExportBackup(program))
  \/ ImportConfirmed

SpecModal == InitStale /\ [][NextModal]_vars

----------------------------------------------------------------------------
(* Sessions from the default Program over several dates, with reloads: what
   xpHistory has recorded against what the Program holds *)

\* the dates the sessions run over
MaxLedgerDays == 2
\* the XP recorded for one date
MaxLedgerXP == 15

LedgerBounds ==
  /\ nextId <= MaxIds + 1
  /\ Len(program.weeks) <= MaxWeeks
  /\ DayXP(program) <= MaxLedgerXP

NextLedger ==
  \/ InitApp
  \/ Tick /\ clock < MaxLedgerDays
  \/ ADD_WEEK
  \/ \E name \in PromptTexts : AddWeekConfirmed(name) /\ LedgerBounds'
  \/ \E wid \in Weeks : ADD_LECTURE(wid)
  \/ \E name \in PromptTexts : AddLectureConfirmed(name) /\ LedgerBounds'
  \/ \E wid \in Weeks, lid \in Lectures, field \in {"watched", "finalNote"}, value \in BOOLEAN :
       LECTURE_TOGGLE(wid, lid, field, value) /\ LedgerBounds'
  \/ \E wid \in Weeks, value \in BOOLEAN :
       WEEK_TOGGLE(wid, "weeklyMemoryNote", value) /\ LedgerBounds'
  \/ \E wid \in Weeks, lid \in Lectures : DELETE_LECTURE(wid, lid)
  \/ DeleteLectureConfirmed /\ LedgerBounds'
  \/ CancelModal

SpecLedger == Init /\ [][NextLedger]_vars

----------------------------------------------------------------------------
(* updateStreak on its own: every call over a range of Programs and dates *)

\* the largest streak and bestStreak a call is made with
MaxStreak == 3

\* the dates of the calls: the turn of a year, and the end of February in a leap
\* year and in a common year
StreakDays ==
  {<<2025, 12, 30>>, <<2025, 12, 31>>, <<2026, 1, 1>>, <<2026, 1, 2>>,
   <<2024, 2, 28>>, <<2024, 3, 1>>, <<2025, 2, 27>>, <<2025, 3, 1>>}

StreakPrograms ==
  {[streak |-> s, bestStreak |-> b, streakFreezes |-> f, lastActiveDate |-> d] :
     s \in 0..MaxStreak, b \in 0..MaxStreak, f \in 0..MAX_FREEZES,
     d \in StreakDays \cup {Null}}

AppAtRest ==
  /\ program = Undefined
  /\ stored = NoDoc
  /\ clock = 1
  /\ nextId = 1
  /\ modal = NoModal
  /\ expandedWeeks = {}
  /\ expandedLectures = {}
  /\ last = [name |-> "", effects |-> <<>>]
  /\ storage = "ok"

InitStreak ==
  /\ AppAtRest
  /\ h \in {[call |-> "updateStreak", p |-> p, today |-> t, returned |-> FALSE,
             result |-> Null] : p \in StreakPrograms, t \in StreakDays}

CallUpdateStreak ==
  /\ ~h.returned
  /\ h' = [h EXCEPT !.returned = TRUE, !.result = UpdateStreak(h.p, h.today)]
  /\ UNCHANGED appVars

SpecStreak == InitStreak /\ [][CallUpdateStreak]_vars

----------------------------------------------------------------------------
(* recalculateTotalXP on its own: two calls in a row on Programs of any content,
   cached xpEarned values out of date, done counts above their totals or below 0
   and totals below 0, as a backup edited by hand has them, included *)

\* the most lectures of the week the calls are made on
MaxCallLectures == 2
\* an xpEarned no recomputation gives
StaleXP == 99

CallLectures ==
  {[lectureId |-> 1, lectureName |-> "a", watched |-> c[1], memoryNote |-> c[2],
    finalNote |-> c[3], activityTotal |-> a[1], activityDone |-> a[2],
    revisionCount |-> r[1], notes |-> "", xpEarned |-> r[2]] :
     c \in {<<FALSE, FALSE, FALSE>>, <<TRUE, FALSE, FALSE>>, <<TRUE, TRUE, TRUE>>},
     a \in {<<0, 0>>, <<1, 2>>, <<-1, 0>>}, r \in {<<0, 0>>, <<1, StaleXP>>}}

CallWeeks ==
  {[weekId |-> 1, weekName |-> "a", lectures |-> ls,
    practiceAssignment |-> [totalQuestions |-> q[1], doneQuestions |-> q[2]],
    gradedAssignment |-> [totalQuestions |-> 1, doneQuestions |-> 1],
    weeklyMemoryNote |-> m, weeklyFinalNote |-> FALSE, weekCompleted |-> wc,
    xpEarned |-> x] :
     ls \in UNION {[1..n -> CallLectures] : n \in 0..MaxCallLectures},
     q \in {<<2, -1>>, <<1, 2>>, <<-1, 0>>}, m \in BOOLEAN, wc \in BOOLEAN,
     x \in {0, StaleXP}}

InitXP ==
  /\ AppAtRest
  /\ h \in {[call |-> "recalculateTotalXP", weeks |-> <<w>>, before |-> <<>>,
             totals |-> <<>>] : w \in CallWeeks}

\* one call: the total it returns is kept, the weeks are as it leaves them
CallRecalculate ==
  /\ Len(h.totals) < 2
  /\ h' = [h EXCEPT !.totals = Append(@, RecalculateTotalXP(h.weeks)),
                    !.before = h.weeks,
                    !.weeks = RecalcWeeks(h.weeks)]
  /\ UNCHANGED appVars

SpecXP == InitXP /\ [][CallRecalculate]_vars

----------------------------------------------------------------------------
(* recalculateTotalXP on Programs of no, one and two weeks *)

\* the revisions of a lecture revised again and again
CallRevisions == 3

SumLectures ==
  {[lectureId |-> 1, lectureName |-> "a", watched |-> w, memoryNote |-> m,
    finalNote |-> f, activityTotal |-> a[1], activityDone |-> a[2],
    revisionCount |-> r, notes |-> "", xpEarned |-> 0] :
     w \in BOOLEAN, m \in BOOLEAN, f \in BOOLEAN,
     a \in {<<0, 0>>, <<2, 1>>, <<1, 2>>}, r \in {0, CallRevisions}}

SumWeek(ls, q, n, wc) ==
  [weekId |-> 1, weekName |-> "a", lectures |-> ls,
   practiceAssignment |-> [totalQuestions |-> q[1], doneQuestions |-> q[2]],
   gradedAssignment |-> [totalQuestions |-> 2, doneQuestions |-> 2],
   weeklyMemoryNote |-> n[1], weeklyFinalNote |-> n[2], weekCompleted |-> wc,
   xpEarned |-> 0]

SumWeeks ==
  {SumWeek(ls, q, n, wc) :
     ls \in {<<>>} \cup {<<l>> : l \in SumLectures}, q \in {<<0, 0>>, <<3, 1>>},
     n \in {<<FALSE, FALSE>>, <<TRUE, FALSE>>, <<TRUE, TRUE>>}, wc \in BOOLEAN}

\* a second week: a completed one of two lectures, one of them revised, and one
\* marked complete that has a lecture not watched
SecondWeeks ==
  {SumWeek(<< [lectureId |-> 2, lectureName |-> "a", watched |-> TRUE, memoryNote |-> TRUE,
               finalNote |-> TRUE, activityTotal |-> 0, activityDone |-> 0,
               revisionCount |-> r, notes |-> "", xpEarned |-> 0],
              [lectureId |-> 3, lectureName |-> "a", watched |-> w, memoryNote |-> TRUE,
               finalNote |-> TRUE, activityTotal |-> 0, activityDone |-> 0,
               revisionCount |-> 0, notes |-> "", xpEarned |-> 0] >>,
           <<0, 0>>, <<FALSE, TRUE>>, TRUE) :
     r \in {CallRevisions}, w \in BOOLEAN}

InitSum ==
  /\ AppAtRest
  /\ h \in {[call |-> "recalculateTotalXP", weeks |-> ws, before |-> <<>>,
             totals |-> <<>>] :
              ws \in {<<>>} \cup {<<w>> : w \in SumWeeks}
                           \cup {<<w, v>> : w \in SumWeeks, v \in SecondWeeks}}

SpecSum == InitSum /\ [][CallRecalculate]_vars

----------------------------------------------------------------------------
(* getLevel, getLevelProgress and xpToNextLevel on their own *)

\* the largest totalXP of a call: four levels
MaxTotalXP == 1000

InitLevel ==
  /\ AppAtRest
  /\ h \in {[call |-> "getLevel", totalXP |-> x, returned |-> FALSE, level |-> Null,
             progress |-> Null, toNext |-> Null] : x \in 0..MaxTotalXP}

CallLevel ==
  /\ ~h.returned
  /\ h' = [h EXCEPT !.returned = TRUE, !.level = GetLevel(h.totalXP),
                    !.progress = GetLevelProgress(h.totalXP),
                    !.toNext = XpToNextLevel(h.totalXP)]
  /\ UNCHANGED appVars

SpecLevel == InitLevel /\ [][CallLevel]_vars

----------------------------------------------------------------------------
(* migrate on its own: documents of every schema version, with and without
   each field a later version added *)

\* the newest schema version a document claims: one above the current
MaxVersion == 5

\* the top-level fields a document may lack, with values no default has
OptionalFields ==
  [streak |-> 3, bestStreak |-> 5, streakFreezes |-> 2, lastActiveDate |-> Dates[1],
   level |-> 2, xpHistory |-> [k \in {Dates[1]} |-> 7]]

\* the lecture of the document, its revisionCount and notes there or not
MigrateLectures ==
  {[k \in {"lectureId", "lectureName", "watched", "memoryNote", "activityTotal",
           "activityDone", "finalNote", "xpEarned"} \cup opt |->
      CASE k = "lectureId" -> 102
        [] k = "lectureName" -> "a"
        [] k \in {"watched", "memoryNote"} -> TRUE
        [] k = "finalNote" -> FALSE
        [] k \in {"activityTotal", "activityDone"} -> 1
        [] k = "xpEarned" -> 13
        [] k = "revisionCount" -> 2
        [] OTHER -> "n"] :
     opt \in SUBSET {"revisionCount", "notes"}}

MigrateWeeks ==
  {<<>>} \cup
  {<< [weekId |-> 101, weekName |-> "a", lectures |-> <<lec>>,
       practiceAssignment |-> [totalQuestions |-> 0, doneQuestions |-> 0],
       gradedAssignment |-> [totalQuestions |-> 0, doneQuestions |-> 0],
       weeklyMemoryNote |-> FALSE, weeklyFinalNote |-> FALSE,
       weekCompleted |-> FALSE, xpEarned |-> 13] >> : lec \in MigrateLectures}

\* the documents: weeks and totalXP always, schemaVersion absent or 1..MaxVersion
MigrateDocs ==
  {[k \in {"weeks", "totalXP"} \cup opt \cup (IF v = 0 THEN {} ELSE {"schemaVersion"}) |->
      CASE k = "weeks" -> ws
        [] k = "totalXP" -> 13
        [] k = "schemaVersion" -> v
        [] OTHER -> OptionalFields[k]] :
     ws \in MigrateWeeks, v \in 0..MaxVersion,
     opt \in {o \in SUBSET DOMAIN OptionalFields : ("level" \in o) = ("xpHistory" \in o)}}

InitMigrate ==
  /\ AppAtRest
  /\ h \in {[call |-> "migrate", data |-> d, returned |-> FALSE, result |-> Null] :
              d \in MigrateDocs}

CallMigrate ==
  /\ ~h.returned
  /\ h' = [h EXCEPT !.returned = TRUE, !.result = Migrate(h.data)]
  /\ UNCHANGED appVars

SpecMigrate == InitMigrate /\ [][CallMigrate]_vars

----------------------------------------------------------------------------
(* recordXP on its own: one call on any history, at any time of the clock *)

\* the XP an entry of the history holds and a call gains
GainXP == 5

\* the dates of the entries: around 365 days before the dates of the clock
HistoryDays ==
  {<<2025, 3, 29>>, <<2025, 3, 30>>, <<2025, 10, 24>>, <<2025, 10, 25>>,
   <<2025, 10, 26>>, <<2026, 10, 25>>}

Histories == UNION {[D -> {GainXP}] : D \in SUBSET HistoryDays}

InitHistory ==
  /\ program = Undefined
  /\ stored = NoDoc
  /\ clock \in 1..Len(Dates)
  /\ nextId = 1
  /\ modal = NoModal
  /\ expandedWeeks = {}
  /\ expandedLectures = {}
  /\ last = [name |-> "", effects |-> <<>>]
  /\ storage = "ok"
  /\ h \in {[call |-> "recordXP", p |-> [xpHistory |-> hist], gained |-> g,
             returned |-> FALSE, result |-> Null] :
              hist \in Histories, g \in {0, GainXP}}

CallRecordXP ==
  /\ ~h.returned
  /\ h' = [h EXCEPT !.returned = TRUE, !.result = RecordXP(h.p, h.gained, TodayISO)]
  /\ UNCHANGED appVars

SpecHistory == InitHistory /\ [][CallRecordXP]_vars

----------------------------------------------------------------------------
(* Properties *)

\* C1: whenever a handler has returned (initApp, a dispatch, a confirmed
\* mutation, a confirmed import), program.totalXP is the total recalculateTotalXP
\* computes from the weeks, every week.xpEarned and lecture.xpEarned is its
\* recomputed subtotal, and program.level is getLevel(program.totalXP).
C1_XPIsRecomputed ==
  Running =>
    /\ program.totalXP = RecalculateTotalXP(program.weeks)
    /\ program.level = GetLevel(program.totalXP)
    /\ \A i \in 1..Len(program.weeks) :
         /\ program.weeks[i].xpEarned = WeekTotal(program.weeks[i])
         /\ \A j \in 1..Len(program.weeks[i].lectures) :
              program.weeks[i].lectures[j].xpEarned
                = CalcLectureXP(program.weeks[i].lectures[j])

\* a confirmed import of the schema-1 document has returned: its uncounted
\* lecture is counted and its level is recomputed
C1_Witness ==
  /\ Running
  /\ last.name = "IMPORT.confirm"
  /\ program.totalXP = LECTURE_WATCH
  /\ program.level = 1

\* C2: every week with weekCompleted = true is core-complete (it has a lecture
\* and every lecture has watched, memoryNote and finalNote true), in every state
\* the handlers reach from the default Program.
C2_CompletedWeeksAreCoreComplete ==
  Running =>
    \A i \in 1..Len(program.weeks) :
      program.weeks[i].weekCompleted => IsWeekCoreComplete(program.weeks[i])

\* the call updateStreak returned from bridged one missed day with a freeze
Bridged ==
  /\ h.p.lastActiveDate # Null
  /\ h.today = NextDay(NextDay(h.p.lastActiveDate))
  /\ h.p.streakFreezes > 0

\* C3: with a gap of exactly two calendar days and a freeze in hand,
\* updateStreak returns streak + 1, bestStreak = max(bestStreak, streak + 1),
\* one freeze fewer and freezeUsed = true; in every other case it returns the
\* freezes unchanged and freezeUsed = false.
C3_FreezeBridgesOneMissedDay ==
  h.returned =>
    IF Bridged
    THEN /\ h.result.streak = h.p.streak + 1
         /\ h.result.bestStreak = Max(h.p.bestStreak, h.p.streak + 1)
         /\ h.result.streakFreezes = h.p.streakFreezes - 1
         /\ h.result.freezeUsed
    ELSE /\ h.result.streakFreezes = h.p.streakFreezes
         /\ ~h.result.freezeUsed

\* a freeze was spent across the turn of the year and one across 29 February
C3_Witness ==
  /\ h.returned
  /\ Bridged
  /\ h.result.freezeUsed
  /\ h.p.lastActiveDate = <<2024, 2, 28>>
  /\ h.today = <<2024, 3, 1>>
  /\ h.p.streak = MaxStreak
  /\ h.result.bestStreak = MaxStreak + 1

\* the gap of the call is two days with no freeze, or three days or more
Broken ==
  /\ h.p.lastActiveDate # Null
  /\ \/ h.today = NextDay(NextDay(h.p.lastActiveDate)) /\ h.p.streakFreezes = 0
     \/ DateLess(NextDay(NextDay(h.p.lastActiveDate)), h.today)

\* C4: when the gap is two days with no freeze, or three days or more whatever
\* the freeze balance, updateStreak returns streak = 1, bestStreak and
\* streakFreezes unchanged and freezeUsed = false.
C4_LongGapResets ==
  (h.returned /\ Broken) =>
    /\ h.result.streak = 1
    /\ h.result.bestStreak = h.p.bestStreak
    /\ h.result.streakFreezes = h.p.streakFreezes
    /\ ~h.result.freezeUsed

\* a streak broke over a gap of three days with a full freeze pool
C4_Witness ==
  /\ h.returned
  /\ h.p.lastActiveDate = <<2025, 12, 30>>
  /\ h.today = <<2026, 1, 2>>
  /\ h.p.streakFreezes = MAX_FREEZES
  /\ h.p.streak = MaxStreak
  /\ h.result.streak = 1

\* C5: the second of two calls of recalculateTotalXP in a row returns the total
\* the first returned and leaves every week.xpEarned and lecture.xpEarned as the
\* first left it.
C5_RecalculateIdempotent ==
  Len(h.totals) = 2 =>
    /\ h.totals[2] = h.totals[1]
    /\ h.weeks = h.before

\* two calls were made on a completed week of two lectures whose cached
\* xpEarned were out of date
C5_Witness ==
  /\ Len(h.totals) = 2
  /\ Len(h.weeks[1].lectures) = MaxCallLectures
  /\ CompletionXP(h.weeks[1]) = WEEK_COMPLETE
  /\ h.weeks[1].xpEarned # StaleXP
  /\ h.totals[2] > WEEK_COMPLETE

\* C6: for every boolean field that is false, the toggle dispatched with true
\* (and accepted) and then with false leaves program.totalXP what it was before
\* the two actions.
C6_NoDoubleCounting ==
  Running =>
    \A wi \in 1..Len(program.weeks) :
      /\ \A field \in WeekFields :
           (/\ ~program.weeks[wi][field]
            /\ ~WeekToggleRejected(program.weeks[wi], field, TRUE))
           => LET on  == XpCommit(WeekToggled(program, wi, field, TRUE))
                  off == XpCommit(WeekToggled(on, wi, field, FALSE))
              IN /\ on.weeks[wi][field]
                 /\ off.totalXP = program.totalXP
      /\ \A li \in 1..Len(program.weeks[wi].lectures), field \in CoreFields :
           ~program.weeks[wi].lectures[li][field]
           => LET on  == XpCommit(LectureToggled(program, wi, li, field, TRUE))
                  off == XpCommit(LectureToggled(on, wi, li, field, FALSE))
              IN /\ on.weeks[wi].lectures[li][field]
                 /\ off.totalXP = program.totalXP

\* a box was ticked and un-ticked: the day's history holds XP the total no
\* longer does, and the week can be completed and un-completed next
C6_Witness ==
  /\ Idle
  /\ last.name = "LECTURE_TOGGLE"
  /\ Len(program.weeks) = 1
  /\ DayXP(program) > program.totalXP
  /\ ~program.weeks[1].weekCompleted
  /\ IsWeekCoreComplete(program.weeks[1])

\* C7: WEEK_TOGGLE of weekCompleted to true on a week that is not core-complete
\* leaves the Program and the stored document as they were; it only shows the
\* advisory toast and renders.
C7_RejectedCompletionChangesNothing ==
  [][\A wid \in Weeks :
       (/\ ~IsWeekCoreComplete(program.weeks[FindWeek(program, wid)])
        /\ WEEK_TOGGLE(wid, "weekCompleted", TRUE))
       => /\ program' = program
          /\ stored' = stored
          /\ last'.effects = <<"toast", "render">>]_vars

\* a completion was turned down on a week whose lecture is only watched
C7_Witness ==
  /\ Running
  /\ last.name = "WEEK_TOGGLE"
  /\ last.effects = <<"toast", "render">>
  /\ Len(program.weeks) = 1
  /\ Len(program.weeks[1].lectures) = 1
  /\ program.weeks[1].lectures[1].watched
  /\ ~program.weeks[1].weekCompleted

\* C8: a confirmed DELETE_LECTURE on a completed week that leaves it not
\* core-complete sets weekCompleted to false, and the total it saves and renders
\* is the recomputed one without the week's +15.
C8_DeleteRechecksCompletion ==
  [][(modal.action = "DELETE_LECTURE" /\ last'.name = "DELETE_LECTURE.confirm")
     => LET wi == FindWeek(program, modal.weekId)
        IN (/\ wi # 0
            /\ program.weeks[wi].weekCompleted
            /\ ~IsWeekCoreComplete(program'.weeks[wi]))
           => /\ ~program'.weeks[wi].weekCompleted
              /\ CompletionXP(program'.weeks[wi]) = 0
              /\ program'.totalXP = RecalculateTotalXP(program'.weeks)
              /\ stored' = JSONStringify(program')
              /\ last'.effects = <<"uncomplete">> \o CommitEffects]_vars

\* the only lecture of a completed week was deleted
C8_Witness ==
  /\ Running
  /\ last.name = "DELETE_LECTURE.confirm"
  /\ last.effects[1] = "uncomplete"
  /\ Len(program.weeks) = 1
  /\ Len(program.weeks[1].lectures) = 0
  /\ ~program.weeks[1].weekCompleted
  /\ program.totalXP = 0

\* effect a comes before effect b wherever both are in the sequence
Before(effects, a, b) ==
  \A i, j \in 1..Len(effects) : (effects[i] = a /\ effects[j] = b) => i < j

\* C9: a handler that saves recomputes the XP and records the history before it
\* saves, and saves before it renders, so that when it returns the stored
\* document is the Program in memory.
C9_SavedDocumentIsTheProgram ==
  (Running /\ \E i \in 1..Len(last.effects) : last.effects[i] = "save") =>
    /\ Before(last.effects, "syncXP", "save")
    /\ Before(last.effects, "recordXP", "save")
    /\ Before(last.effects, "save", "render")
    /\ stored = JSONStringify(program)

\* C10: program.streakFreezes is an integer from 0 to MAX_FREEZES in every
\* state, after loads and confirmed imports included.
C10_FreezesWithinPool ==
  Running => program.streakFreezes \in 0..MAX_FREEZES

\* C11: an accepted WEEK_TOGGLE of weekCompleted to true raises streakFreezes by
\* one when it is below MAX_FREEZES and leaves it there otherwise; no other
\* dispatched action (un-marking the week, LECTURE_TOGGLE and DELETE_LECTURE
\* clearing weekCompleted included) changes streakFreezes.
C11_FreezeEarnedOnCompletionOnly ==
  [][(Running /\ last'.name # "initApp")
     => IF \E wid \in Weeks :
             /\ IsWeekCoreComplete(program.weeks[FindWeek(program, wid)])
             /\ WEEK_TOGGLE(wid, "weekCompleted", TRUE)
        THEN program'.streakFreezes
               = IF program.streakFreezes < MAX_FREEZES
                 THEN program.streakFreezes + 1 ELSE MAX_FREEZES
        ELSE program'.streakFreezes = program.streakFreezes]_vars

\* the week was completed a second time in the day with the pool full
C11_Witness ==
  /\ Running
  /\ last.name = "WEEK_TOGGLE"
  /\ program.weeks[1].weekCompleted
  /\ program.streakFreezes = MAX_FREEZES
  /\ TodayISO \in DOMAIN program.xpHistory
  /\ program.xpHistory[TodayISO] = 2 * WEEK_COMPLETE

NextDayCall ==
  /\ h.p.lastActiveDate # Null
  /\ h.today = NextDay(h.p.lastActiveDate)

\* C14: with a gap of exactly one calendar day updateStreak returns streak + 1,
\* bestStreak = max(bestStreak, streak + 1), the freezes unchanged and
\* freezeUsed = false, whatever the freeze balance
C14_NextDayExtendsStreak ==
  (h.returned /\ NextDayCall)
    => /\ h.result.streak = h.p.streak + 1
       /\ h.result.bestStreak = Max(h.p.bestStreak, h.p.streak + 1)
       /\ h.result.streakFreezes = h.p.streakFreezes
       /\ ~h.result.freezeUsed
       /\ h.result.lastActiveDate = h.today

\* a streak at its best extended on 1 January with a full pool of freezes
C14_Witness ==
  /\ h.returned
  /\ NextDayCall
  /\ h.p.lastActiveDate = <<2025, 12, 31>>
  /\ h.p.streakFreezes = MAX_FREEZES
  /\ h.p.streak = MaxStreak
  /\ h.p.bestStreak = MaxStreak
  /\ h.result.bestStreak = MaxStreak + 1

\* C15: on the first activation (no lastActiveDate) updateStreak returns
\* streak 1, bestStreak = max(bestStreak, 1), the freezes unchanged,
\* lastActiveDate today and freezeUsed = false, whatever streak was stored
C15_FirstActivationStartsAtOne ==
  (h.returned /\ h.p.lastActiveDate = Null)
    => /\ h.result.streak = 1
       /\ h.result.bestStreak = Max(h.p.bestStreak, 1)
       /\ h.result.streakFreezes = h.p.streakFreezes
       /\ h.result.lastActiveDate = h.today
       /\ ~h.result.freezeUsed

\* a first activation on a Program that stores a streak and freezes
C15_Witness ==
  /\ h.returned
  /\ h.p.lastActiveDate = Null
  /\ h.p.streak = MaxStreak
  /\ h.p.bestStreak = 0
  /\ h.p.streakFreezes = 2
  /\ h.result.streak = 1
  /\ h.result.bestStreak = 1

\* the times the effect is in the sequence
Times(effects, a) == Cardinality({i \in 1..Len(effects) : effects[i] = a})

\* C16: in every session the streak transition is applied exactly once, by
\* initApp, before the session's first XP recomputation: initApp leaves the
\* streak fields as updateStreak returns them for the loaded Program; every
\* other handler leaves streak, bestStreak and lastActiveDate as they are, also
\* when the date has changed since the page was loaded; and a confirmed import
\* leaves them as the backup has them
C16_StreakTransitionOncePerSession ==
  [][IF InitApp
     THEN /\ Times(last'.effects, "updateStreak") = 1
          /\ Before(last'.effects, "updateStreak", "syncXP")
          /\ LET r == UpdateStreak(LoadProgram(stored), TodayISO)
             IN /\ program'.streak = r.streak
                /\ program'.bestStreak = r.bestStreak
                /\ program'.streakFreezes = r.streakFreezes
                /\ program'.lastActiveDate = r.lastActiveDate
     ELSE (Running /\ clock' = clock)
            => /\ Times(last'.effects, "updateStreak") = 0
               /\ LET was == IF ImportConfirmed THEN modal.doc ELSE program
                  IN /\ program'.streak = was.streak
                     /\ program'.bestStreak = was.bestStreak
                     /\ program'.lastActiveDate = was.lastActiveDate]_vars

\* a box ticked after midnight in a session of the day before: XP is recorded
\* for the new date, and the Program's last active date is still the old one
C16_Witness ==
  /\ Running /\ last.name = "LECTURE_TOGGLE" /\ clock = 2
  /\ program.lastActiveDate = Dates[1]
  /\ Dates[2] \in DOMAIN program.xpHistory
  /\ program.streak = 3

\* C17: a handler that commits and takes totalXP from p to n adds exactly
\* max(0, n - p) to xpHistory[today] and leaves every other entry it keeps as it
\* was, adding none; a handler that lowers totalXP lowers no entry; every value
\* xpHistory holds is a positive integer; and xpHistory[today] does not go down
\* while the date stays the same
C17_HistoryRecordsTheGain ==
  [][(program' # Undefined /\ ~ImportConfirmed)
     => /\ \A k \in DOMAIN program'.xpHistory :
             program'.xpHistory[k] \in Nat \ {0}
        /\ (Running /\ clock' = clock /\ ~InitApp)
             => /\ TodayXP(program')
                     = TodayXP(program) + Max(0, program'.totalXP - program.totalXP)
                /\ \A k \in DOMAIN program'.xpHistory \ {TodayISO} :
                     /\ k \in DOMAIN program.xpHistory
                     /\ program'.xpHistory[k] = program.xpHistory[k]
                /\ \A k \in DOMAIN program.xpHistory \cap DOMAIN program'.xpHistory :
                     program'.xpHistory[k] >= program.xpHistory[k]
        /\ (Running /\ clock' = clock) => TodayXP(program') >= TodayXP(program)]_vars

\* on the second date a box was ticked twice and un-ticked: the date's entry
\* holds both gains, the total is below what the document was loaded with, and
\* the entry of the day before is as it was
C17_Witness ==
  /\ Running /\ last.name = "LECTURE_TOGGLE" /\ clock = 2
  /\ TodayXP(program) = 2 * LECTURE_WATCH
  /\ program.totalXP = 17 - LECTURE_WATCH
  /\ Eve \in DOMAIN program.xpHistory
  /\ program.xpHistory[Eve] = 17

\* C18: after a write to xpHistory (a call of recordXP with a positive gain)
\* no key is dated more than 365 days before today, and every entry that is
\* dated within the last 365 days is still there, with its value unless it is
\* today's
C18_HistoryHoldsTheLastYear ==
  (h.returned /\ h.gained > 0)
    => /\ \A k \in DOMAIN h.result.xpHistory : DiffDays(TodayISO, k) <= 365
       /\ \A k \in DOMAIN h.p.xpHistory :
            DiffDays(TodayISO, k) <= 365
              => /\ k \in DOMAIN h.result.xpHistory
                 /\ k # TodayISO => h.result.xpHistory[k] = h.p.xpHistory[k]

\* what the week's xpEarned holds beside the completion bonus: the lectures'
\* xpEarned, the assignment questions and the two weekly notes
WithoutBonus(week) ==
    SumSeq([i \in 1..Len(week.lectures) |-> week.lectures[i].xpEarned])
  + PRACTICE_Q * Max(0, Min(week.practiceAssignment.totalQuestions,
                            week.practiceAssignment.doneQuestions))
  + GRADED_Q * Max(0, Min(week.gradedAssignment.totalQuestions,
                          week.gradedAssignment.doneQuestions))
  + (IF week.weeklyMemoryNote THEN WEEKLY_MEMORY ELSE 0)
  + (IF week.weeklyFinalNote THEN WEEKLY_FINAL ELSE 0)

\* C19: after recalculateTotalXP a week's xpEarned includes the completion
\* bonus of 15 if and only if weekCompleted is true, the week has at least one
\* lecture and every lecture has watched, memoryNote and finalNote true; a week
\* without lectures never has it
C19_BonusIffCompletedAndCore ==
  Len(h.totals) >= 1 =>
    LET week == h.weeks[1]
    IN week.xpEarned - WithoutBonus(week)
         = IF /\ week.weekCompleted
              /\ Len(week.lectures) >= 1
              /\ \A i \in 1..Len(week.lectures) :
                   /\ week.lectures[i].watched
                   /\ week.lectures[i].memoryNote
                   /\ week.lectures[i].finalNote
           THEN WEEK_COMPLETE ELSE 0

\* a week marked complete that has no lecture was recomputed: no bonus
C19_Witness ==
  /\ Len(h.totals) >= 1
  /\ h.weeks[1].weekCompleted
  /\ Len(h.weeks[1].lectures) = 0
  /\ h.before[1].xpEarned = StaleXP
  /\ h.weeks[1].xpEarned = WithoutBonus(h.weeks[1])

\* the XP a recomputed lecture holds for its activity questions
ActivityXP(lec) ==
  lec.xpEarned - (IF lec.watched THEN LECTURE_WATCH ELSE 0)
               - (IF lec.memoryNote THEN LECTURE_MEMORY ELSE 0)
               - (IF lec.finalNote THEN LECTURE_FINAL ELSE 0)
               - lec.revisionCount * LECTURE_REVISION

\* the XP a recomputed week holds for its practice and graded questions
QuestionsXP(week) ==
  week.xpEarned - SumSeq([i \in 1..Len(week.lectures) |-> week.lectures[i].xpEarned])
                - (IF week.weeklyMemoryNote THEN WEEKLY_MEMORY ELSE 0)
                - (IF week.weeklyFinalNote THEN WEEKLY_FINAL ELSE 0)
                - (IF /\ week.weekCompleted
                      /\ Len(week.lectures) >= 1
                      /\ \A i \in 1..Len(week.lectures) :
                           /\ week.lectures[i].watched
                           /\ week.lectures[i].memoryNote
                           /\ week.lectures[i].finalNote
                   THEN WEEK_COMPLETE ELSE 0)

\* C20 as stated: whatever the stored counters, the activity questions of a
\* lecture contribute 1 * min(max(activityDone, 0), activityTotal) and the
\* practice and graded questions 2 * min(max(doneQuestions, 0), totalQuestions),
\* never more than the total would
C20_ClampAsStated ==
  Len(h.totals) >= 1 =>
    LET week == h.weeks[1]
        pa   == week.practiceAssignment
        ga   == week.gradedAssignment
    IN /\ \A i \in 1..Len(week.lectures) :
            LET lec == week.lectures[i]
            IN /\ ActivityXP(lec)
                    = LECTURE_ACTIVITY * Min(Max(lec.activityDone, 0), lec.activityTotal)
               /\ ActivityXP(lec) <= LECTURE_ACTIVITY * lec.activityTotal
       /\ QuestionsXP(week)
            = PRACTICE_Q * Min(Max(pa.doneQuestions, 0), pa.totalQuestions)
              + GRADED_Q * Min(Max(ga.doneQuestions, 0), ga.totalQuestions)

\* what a done count and its total contribute, one point each: the done count
\* cut to its total, and 0 where that is negative
Counted(done, total) == IF Min(total, done) < 0 THEN 0 ELSE Min(total, done)

\* C20, amended: the activity questions of a lecture contribute
\* 1 * max(0, min(activityTotal, activityDone)) and the practice and graded
\* questions 2 * max(0, min(totalQuestions, doneQuestions)); with a total of 0
\* or more that is min(max(done, 0), total) and never more than the total
\* would contribute, and with a total below 0 it is 0
C20_ClampLowerEndLast ==
  Len(h.totals) >= 1 =>
    LET week == h.weeks[1]
        pa   == week.practiceAssignment
        ga   == week.gradedAssignment
    IN /\ \A i \in 1..Len(week.lectures) :
            LET lec == week.lectures[i]
            IN /\ ActivityXP(lec)
                    = LECTURE_ACTIVITY * Counted(lec.activityDone, lec.activityTotal)
               /\ lec.activityTotal >= 0
                    => /\ ActivityXP(lec) = LECTURE_ACTIVITY
                            * Min(Max(lec.activityDone, 0), lec.activityTotal)
                       /\ ActivityXP(lec) <= LECTURE_ACTIVITY * lec.activityTotal
               /\ lec.activityTotal < 0 => ActivityXP(lec) = 0
       /\ QuestionsXP(week)
            = PRACTICE_Q * Counted(pa.doneQuestions, pa.totalQuestions)
              + GRADED_Q * Counted(ga.doneQuestions, ga.totalQuestions)
       /\ (pa.totalQuestions >= 0 /\ ga.totalQuestions >= 0)
            => /\ QuestionsXP(week)
                    = PRACTICE_Q * Min(Max(pa.doneQuestions, 0), pa.totalQuestions)
                      + GRADED_Q * Min(Max(ga.doneQuestions, 0), ga.totalQuestions)
               /\ QuestionsXP(week)
                    <= PRACTICE_Q * pa.totalQuestions + GRADED_Q * ga.totalQuestions

\* a week was recomputed whose first lecture has more activity questions done
\* than it has, whose second has a total below 0, and whose practice
\* assignment has a done count below 0
C20_Witness ==
  /\ Len(h.totals) >= 1
  /\ Len(h.weeks[1].lectures) = 2
  /\ h.weeks[1].lectures[1].activityDone > h.weeks[1].lectures[1].activityTotal
  /\ ActivityXP(h.weeks[1].lectures[1]) = LECTURE_ACTIVITY
  /\ h.weeks[1].lectures[2].activityTotal < 0
  /\ ActivityXP(h.weeks[1].lectures[2]) = 0
  /\ h.weeks[1].practiceAssignment.doneQuestions < 0
  /\ QuestionsXP(h.weeks[1]) = GRADED_Q

\* the XP of a lecture as the scoring table gives it
TableLectureXP(lec) ==
    5 * Bit(lec.watched) + 7 * Bit(lec.memoryNote) + 5 * Bit(lec.finalNote)
  + 1 * Counted(lec.activityDone, lec.activityTotal) + 10 * lec.revisionCount

\* the XP of a week as the scoring table gives it
TableWeekXP(week) ==
    SumSeq([j \in 1..Len(week.lectures) |-> TableLectureXP(week.lectures[j])])
  + 2 * Counted(week.practiceAssignment.doneQuestions, week.practiceAssignment.totalQuestions)
  + 2 * Counted(week.gradedAssignment.doneQuestions, week.gradedAssignment.totalQuestions)
  + 10 * Bit(week.weeklyMemoryNote) + 10 * Bit(week.weeklyFinalNote)
  + (IF /\ week.weekCompleted
        /\ Len(week.lectures) >= 1
        /\ \A j \in 1..Len(week.lectures) :
             /\ week.lectures[j].watched
             /\ week.lectures[j].memoryNote
             /\ week.lectures[j].finalNote
     THEN 15 ELSE 0)

\* C21: the XP of every lecture is 5 for watched, 7 for the memory note, 5 for
\* the final note, 1 for each activity question done within the total and 10
\* for each revision, however many; and recalculateTotalXP returns the sum over
\* all weeks of the lectures' XP, 2 for each assignment question done, 10 for
\* each weekly note and the gated bonus - 0 for a Program without weeks
C21_TotalIsTheSumOfTheTable ==
  Len(h.totals) >= 1 =>
    /\ \A i \in 1..Len(h.weeks) : \A j \in 1..Len(h.weeks[i].lectures) :
         h.weeks[i].lectures[j].xpEarned = TableLectureXP(h.weeks[i].lectures[j])
    /\ \A n \in 1..Len(h.totals) :
         h.totals[n] = SumSeq([i \in 1..Len(h.weeks) |-> TableWeekXP(h.weeks[i])])
    /\ Len(h.weeks) = 0 => h.totals[1] = 0

\* the total of two weeks was computed, the second completed and worth
\* 2 * 17 + 30 for its revisions + 4 + 10 + 15, the first one lecture revised
\* three times and nothing else but its graded questions
C21_Witness ==
  /\ Len(h.totals) >= 1
  /\ Len(h.weeks) = 2
  /\ Len(h.weeks[1].lectures) = 1
  /\ h.weeks[1].lectures[1].revisionCount = CallRevisions
  /\ h.weeks[1].lectures[1].xpEarned = 10 * CallRevisions
  /\ h.weeks[1].xpEarned = 10 * CallRevisions + 4
  /\ h.weeks[2].xpEarned = 34 + 10 * CallRevisions + 4 + 10 + 15
  /\ h.totals[1] = h.weeks[1].xpEarned + h.weeks[2].xpEarned

\* C22: for every totalXP >= 0, getLevel is (totalXP div 250) + 1, at least 1;
\* xpToNextLevel is 250 - (totalXP mod 250), within 1..250; totalXP plus it is
\* 250 times the level; and the numerator of the progress within the level is
\* totalXP mod 250, within 0..249 and 0 exactly where a level begins
C22_LevelArithmetic ==
  h.returned =>
    /\ h.level = (h.totalXP \div 250) + 1
    /\ h.level >= 1
    /\ h.toNext = 250 - (h.totalXP % 250)
    /\ h.toNext \in 1..250
    /\ h.totalXP + h.toNext = 250 * h.level
    /\ h.progress.den = 250
    /\ h.progress.num = h.totalXP % 250
    /\ h.progress.num \in 0..249
    /\ h.progress.num = 0 <=> h.totalXP = 250 * (h.level - 1)

\* the calls returned for the first XP of the third level
C22_Witness ==
  /\ h.returned
  /\ h.totalXP = 500
  /\ h.level = 3
  /\ h.toNext = 250
  /\ h.progress.num = 0

\* the version migrate reads: data.schemaVersion || 0
VersionOf(data) == IF "schemaVersion" \in DOMAIN data THEN data.schemaVersion ELSE 0

\* the document's weeks are in the result with every field they had
WeeksKept(data, result) ==
  /\ Len(result.weeks) = Len(data.weeks)
  /\ \A i \in 1..Len(data.weeks) :
       /\ \A k \in DOMAIN data.weeks[i] \ {"lectures"} :
            result.weeks[i][k] = data.weeks[i][k]
       /\ Len(result.weeks[i].lectures) = Len(data.weeks[i].lectures)
       /\ \A j \in 1..Len(data.weeks[i].lectures) :
            \A k \in DOMAIN data.weeks[i].lectures[j] :
              /\ k \in DOMAIN result.weeks[i].lectures[j]
              /\ result.weeks[i].lectures[j][k] = data.weeks[i].lectures[j][k]

\* C23: for a document of the oldest schema version (1, or no schemaVersion)
\* migrate returns a document that has every top-level field of the default
\* Program and revisionCount and notes on every lecture, and in which every
\* field the document had, schemaVersion aside, has the value it had
C23_OldestDocumentIsCompleted ==
  (h.returned /\ VersionOf(h.data) <= 1)
    => /\ \A k \in DOMAIN CreateDefaultProgram : k \in DOMAIN h.result
       /\ \A i \in 1..Len(h.result.weeks) : \A j \in 1..Len(h.result.weeks[i].lectures) :
            {"revisionCount", "notes"} \subseteq DOMAIN h.result.weeks[i].lectures[j]
       /\ \A k \in DOMAIN h.data \ {"schemaVersion", "weeks"} : h.result[k] = h.data[k]
       /\ WeeksKept(h.data, h.result)

\* a document without schemaVersion, bestStreak and streakFreezes whose lecture
\* has neither revisionCount nor notes was migrated, its streak and history kept
C23_Witness ==
  /\ h.returned
  /\ DOMAIN h.data = {"weeks", "totalXP", "streak", "level", "xpHistory"}
  /\ Len(h.data.weeks) = 1
  /\ "notes" \notin DOMAIN h.data.weeks[1].lectures[1]
  /\ "revisionCount" \notin DOMAIN h.data.weeks[1].lectures[1]
  /\ h.result.weeks[1].lectures[1].notes = ""
  /\ h.result.weeks[1].lectures[1].revisionCount = 0
  /\ h.result.bestStreak = 3
  /\ h.result.streakFreezes = 0
  /\ h.result.lastActiveDate = Null
  /\ h.result.schemaVersion = 4

\* every lecture of the weeks has the field
OnEveryLecture(weeks, field) ==
  \A i \in 1..Len(weeks) : \A j \in 1..Len(weeks[i].lectures) :
    field \in DOMAIN weeks[i].lectures[j]

\* C24: migrate never lowers schemaVersion, and leaves it at exactly 4 for a
\* document of version 4 or below or without one; the v2 transform
\* (revisionCount on lectures) has acted exactly on inputs below 2, the v3
\* transform (notes on lectures, bestStreak from the streak) exactly on inputs
\* below 3, the v4 transform (streakFreezes) on inputs below 4; and a document
\* of version 4 has no field changed, only missing top-level fields added
C24_MigrationIsForwardOnly ==
  h.returned =>
    LET v == VersionOf(h.data)
    IN /\ h.result.schemaVersion >= v
       /\ v <= 4 => h.result.schemaVersion = 4
       /\ WeeksKept(h.data, h.result)
       /\ OnEveryLecture(h.result.weeks, "revisionCount")
            <=> (v < 2 \/ OnEveryLecture(h.data.weeks, "revisionCount"))
       /\ OnEveryLecture(h.result.weeks, "notes")
            <=> (v < 3 \/ OnEveryLecture(h.data.weeks, "notes"))
       /\ "bestStreak" \notin DOMAIN h.data
            => h.result.bestStreak
                 = IF v < 3 /\ "streak" \in DOMAIN h.data THEN h.data.streak ELSE 0
       /\ "streakFreezes" \notin DOMAIN h.data => h.result.streakFreezes = 0
       /\ \A k \in DOMAIN h.data \ {"schemaVersion", "weeks"} : h.result[k] = h.data[k]
       /\ v >= 4
            => /\ h.result.weeks = h.data.weeks
               /\ h.result.schemaVersion = v
               /\ \A k \in DOMAIN h.result \ DOMAIN h.data :
                    h.result[k] = CreateDefaultProgram[k]

\* a version-2 document was migrated: its lecture had no revisionCount and no
\* notes and has only the notes now, and bestStreak is the streak
C24_Witness ==
  /\ h.returned
  /\ VersionOf(h.data) = 2
  /\ Len(h.data.weeks) = 1
  /\ DOMAIN h.result.weeks[1].lectures[1]
       = DOMAIN h.data.weeks[1].lectures[1] \cup {"notes"}
  /\ "revisionCount" \notin DOMAIN h.data.weeks[1].lectures[1]
  /\ "notes" \notin DOMAIN h.data.weeks[1].lectures[1]
  /\ "bestStreak" \notin DOMAIN h.data
  /\ h.result.bestStreak = 3
  /\ h.result.schemaVersion = 4

\* what the claim calls an input that is no backup
Rejected(file) ==
  ~file.parses \/ ~file.object \/ ~file.weeksArray \/ ~file.totalXPNumber

\* C25: a file that is not parseable JSON, not an object, or has no array-valued
\* weeks or no numeric totalXP is answered with ok false and an error, migrate is
\* not invoked, and the live Program, the persisted document and the modal are
\* left as they were
C25_BadFileChangesNothing ==
  [][\A file \in ImportFiles \cup BrokenFiles :
       (Rejected(file) /\ ImportFileLoaded(file)) =>
         /\ ~ParseImportedBackup(file).ok
         /\ ParseImportedBackup(file).error # ""
         /\ \A i \in 1..Len(last'.effects) : last'.effects[i] # "migrate"
         /\ program' = program
         /\ stored' = stored
         /\ modal' = modal]_vars

\* a file with weeks but a totalXP that is no number was picked while a Program
\* with a week was live, and was turned down
C25_Witness ==
  /\ Running
  /\ Len(program.weeks) > 0
  /\ last.name = "IMPORT.onload"
  /\ last.effects = <<"parse", "toast">>
  /\ modal = NoModal

\* C26: the backup exported from the live Program is accepted by the import, and
\* confirming its import leaves a live Program with the same weeks, totalXP and
\* xpHistory
C26_ExportImportRoundTrip ==
  [][/\ Running' => ParseImportedBackup(ExportBackup(program')).ok
     /\ (/\ Running
         /\ ParseImportedBackup(ExportBackup(program)).ok
         /\ modal.doc = ParseImportedBackup(ExportBackup(program)).program
         /\ ImportConfirmed) =>
          /\ program'.weeks = program.weeks
          /\ program'.totalXP = program.totalXP
          /\ program'.xpHistory = program.xpHistory]_vars

\* a backup of a Program with a week and XP earned today was imported and confirmed
C26_Witness ==
  /\ Running
  /\ last.name = "IMPORT.confirm"
  /\ Len(program.weeks) > 0
  /\ TodayXP(program) > 0
  /\ program.totalXP > 0

\* the handler that ran called saveProgram / saveProgram failed in it
Saving(effects) == \E i \in 1..Len(effects) : effects[i] = "save"
SaveFailed(effects) == \E i \in 1..Len(effects) : effects[i] = "console.error"

\* C27: when the write fails saveProgram returns false and nothing is thrown
\* past it: the document stored stays, the Program in memory is the one handed
\* to saveProgram, and the handler runs on to its end, render included
C27_FailedSaveIsContained ==
  [][storage # "ok" =>
       /\ ~SaveReturns
       /\ InitApp =>
            /\ program' = SyncXP(program').program
            /\ program'.lastActiveDate = TodayISO
            /\ stored' = stored
            /\ SaveFailed(last'.effects)
            /\ last'.effects[Len(last'.effects)] = "render"
       /\ \A wid \in Weeks, lid \in Lectures, value \in BOOLEAN :
            (LECTURE_TOGGLE(wid, lid, "watched", value)
               /\ FindLecture(program, wid, lid) # 0) =>
              /\ program' = XpCommit(LectureToggled(program, FindWeek(program, wid),
                                       FindLecture(program, wid, lid), "watched", value))
              /\ stored' = stored
              /\ SaveFailed(last'.effects)
              /\ last'.effects[Len(last'.effects)] = "render"
       /\ \A wid \in Weeks, value \in BOOLEAN :
            (WEEK_TOGGLE(wid, "weekCompleted", value) /\ Saving(last'.effects)) =>
              /\ program' = XpCommit(WeekToggled(program, FindWeek(program, wid),
                                                 "weekCompleted", value))
              /\ stored' = stored
              /\ SaveFailed(last'.effects)
              /\ \E i \in 1..Len(last'.effects) : last'.effects[i] = "render"]_vars

\* a lecture was unticked while setItem was failing: the Program in memory has
\* the change, the document stored has not
C27_Witness ==
  /\ Running
  /\ storage # "ok"
  /\ last.name = "LECTURE_TOGGLE"
  /\ SaveFailed(last.effects)
  /\ ~program.weeks[1].lectures[1].watched
  /\ JSONParse(stored).weeks[1].lectures[1].watched

\* C28: a handler that saves while setItem fails leaves the Program in memory
\* with its mutation, and a save that succeeds, the first after failed ones
\* included, stores the whole Program then in memory
C28_NextGoodSaveStoresEverything ==
  [][/\ (Running /\ ~InitApp /\ Saving(last'.effects) /\ storage # "ok" /\ storage' = storage) =>
          /\ stored' = stored
          /\ \/ last'.name # "LECTURE_TOGGLE"
             \/ \E wi \in 1..Len(program'.weeks) : \E li \in 1..Len(program'.weeks[wi].lectures) :
                  program'.weeks[wi].lectures[li].watched
                    # program.weeks[wi].lectures[li].watched
             \/ program'.weeks = program.weeks
     /\ (Saving(last'.effects) /\ storage = "ok" /\ storage' = "ok") =>
          stored' = JSONStringify(program')]_vars

\* setItem worked again while changes were unsaved, and the handler that ran
\* since then saved a Program whose lecture is no longer watched
C28_Witness ==
  /\ Running
  /\ h.unsaved
  /\ storage = "ok"
  /\ last.name = "LECTURE_TOGGLE"
  /\ Saving(last.effects) /\ ~SaveFailed(last.effects)
  /\ stored = JSONStringify(program)
  /\ ~program.weeks[1].lectures[1].watched

\* C29: every failed save is shown to the user
C29_FailedSaveIsShown ==
  SaveFailed(last.effects) => \E i \in 1..Len(last.effects) : last.effects[i] = "alert"

\* the week / the lecture of the week a dispatch names is not in the Program
NoWeek(wid) == \A i \in 1..Len(program.weeks) : program.weeks[i].weekId # wid
NoLecture(wid, lid) ==
  \A i \in 1..Len(program.weeks) :
    program.weeks[i].weekId = wid =>
      \A j \in 1..Len(program.weeks[i].lectures) :
        program.weeks[i].lectures[j].lectureId # lid

\* the step changed neither the Program, the stored document nor the modal
Discarded ==
  /\ program' = program
  /\ stored' = stored
  /\ modal' = modal
  /\ nextId' = nextId

\* C30: a data action addressed to a week or lecture that is not in the Program
\* leaves the Program (xpHistory included) and the stored document as they
\* were, so that the same dispatch finds the same state again
C30_UnknownIdIsDiscarded ==
  [][Running =>
     /\ \A wid \in CarriedWeekIds :
          NoWeek(wid) =>
            /\ EDIT_WEEK_NAME(wid) => Discarded
            /\ DELETE_WEEK(wid) => Discarded
            /\ ADD_LECTURE(wid) => Discarded
            /\ \A type \in {"practice", "graded"}, dir \in AssignmentSteps :
                 ASSIGNMENT_STEP(wid, type, dir) => Discarded
            /\ \A field \in WeekFields, value \in BOOLEAN :
                 WEEK_TOGGLE(wid, field, value) => Discarded
     /\ \A wid \in CarriedWeekIds, lid \in CarriedLectureIds :
          (NoWeek(wid) \/ NoLecture(wid, lid)) =>
            /\ RENAME_LECTURE(wid, lid) => Discarded
            /\ DELETE_LECTURE(wid, lid) => Discarded
            /\ \A text \in NoteTexts : SAVE_LECTURE_NOTE(wid, lid, text) => Discarded
            /\ \A value \in BOOLEAN : LECTURE_TOGGLE(wid, lid, "watched", value) => Discarded
            /\ \A action \in LectureSteps : LECTURE_STEP(wid, lid, action) => Discarded]_vars

\* the note of a lecture was to be saved after the lecture had been deleted from
\* its week
C30_Witness ==
  /\ Running
  /\ last = [name |-> "SAVE_LECTURE_NOTE", effects |-> <<>>]
  /\ Len(program.weeks) = 1
  /\ Len(program.weeks[1].lectures) = 0
  /\ stored = JSONStringify(program)

\* C31: after a confirmed DELETE_WEEK or DELETE_LECTURE the week or lecture is
\* gone from its parent sequence, and expandedWeeks and expandedLectures hold the
\* id of no week or lecture the deletion removed, the lectures of a deleted week
\* included
C31_DeletionPrunesExpansion ==
  [][(DeleteWeekConfirmed \/ DeleteLectureConfirmed) =>
       /\ DeleteWeekConfirmed => modal.weekId \notin WeekIdsOf(program')
       /\ DeleteLectureConfirmed => modal.lectureId \notin LectureIdsOf(program')
       /\ expandedWeeks' \cap (WeekIdsOf(program) \ WeekIdsOf(program')) = {}
       /\ expandedLectures' \cap (LectureIdsOf(program) \ LectureIdsOf(program')) = {}]_vars

\* the keys of xpHistory a step wrote: those new or with another value
Written == {k \in DOMAIN program'.xpHistory :
              k \notin DOMAIN program.xpHistory \/ program'.xpHistory[k] # program.xpHistory[k]}

\* C32: every xpHistory write of a dispatch is keyed by the date the session was
\* started with, the lastActiveDate the streak transition of initApp set, also
\* when the date has changed since
C32_HistoryKeyedBySessionDate ==
  [][(Running /\ ~InitApp) => \A k \in Written : k = program.lastActiveDate]_vars

\* the counters of a Program are within their ranges
CountersInRange(p) ==
  \A i \in 1..Len(p.weeks) :
    /\ 0 <= p.weeks[i].practiceAssignment.doneQuestions
    /\ p.weeks[i].practiceAssignment.doneQuestions <= p.weeks[i].practiceAssignment.totalQuestions
    /\ 0 <= p.weeks[i].gradedAssignment.doneQuestions
    /\ p.weeks[i].gradedAssignment.doneQuestions <= p.weeks[i].gradedAssignment.totalQuestions
    /\ \A j \in 1..Len(p.weeks[i].lectures) :
         /\ 0 <= p.weeks[i].lectures[j].activityDone
         /\ p.weeks[i].lectures[j].activityDone <= p.weeks[i].lectures[j].activityTotal
         /\ p.weeks[i].lectures[j].revisionCount >= 0

\* the lecture lid of week wid, and the assignment of a type of week wid
LectureOf(p, wid, lid) == p.weeks[FindWeek(p, wid)].lectures[FindLecture(p, wid, lid)]
AssignmentOf(p, wid, type) ==
  IF type = "practice" THEN p.weeks[FindWeek(p, wid)].practiceAssignment
  ELSE p.weeks[FindWeek(p, wid)].gradedAssignment

\* C33: the counters of lectures and assignments made by the orchestrator stay in
\* 0 <= done <= total and revisionCount >= 0 whatever is stepped; decrementing a
\* total below the done count takes the done count down with it, and
\* incrementing done at done = total, or decrementing anything at 0, changes
\* nothing
C33_CountersStayInRange ==
  [][Running' =>
     /\ CountersInRange(program')
     /\ \A wid \in Weeks, lid \in Lectures :
          /\ (LECTURE_STEP(wid, lid, "actTotal-dec")
                /\ LectureOf(program, wid, lid).activityTotal > 0
                /\ LectureOf(program, wid, lid).activityDone
                     = LectureOf(program, wid, lid).activityTotal) =>
               /\ LectureOf(program', wid, lid).activityTotal
                    = LectureOf(program, wid, lid).activityTotal - 1
               /\ LectureOf(program', wid, lid).activityDone
                    = LectureOf(program, wid, lid).activityTotal - 1
          /\ (LECTURE_STEP(wid, lid, "actDone-inc")
                /\ LectureOf(program, wid, lid).activityDone
                     = LectureOf(program, wid, lid).activityTotal) => program' = program
          /\ (LECTURE_STEP(wid, lid, "actTotal-dec")
                /\ LectureOf(program, wid, lid).activityTotal = 0) => program' = program
          /\ (LECTURE_STEP(wid, lid, "actDone-dec")
                /\ LectureOf(program, wid, lid).activityDone = 0) => program' = program
          /\ (LECTURE_STEP(wid, lid, "rev-dec")
                /\ LectureOf(program, wid, lid).revisionCount = 0) => program' = program
     /\ \A wid \in Weeks, type \in {"practice", "graded"} :
          /\ (ASSIGNMENT_STEP(wid, type, "total-dec")
                /\ AssignmentOf(program, wid, type).totalQuestions > 0
                /\ AssignmentOf(program, wid, type).doneQuestions
                     = AssignmentOf(program, wid, type).totalQuestions) =>
               /\ AssignmentOf(program', wid, type).totalQuestions
                    = AssignmentOf(program, wid, type).totalQuestions - 1
               /\ AssignmentOf(program', wid, type).doneQuestions
                    = AssignmentOf(program, wid, type).totalQuestions - 1
          /\ (ASSIGNMENT_STEP(wid, type, "done-inc")
                /\ AssignmentOf(program, wid, type).doneQuestions
                     = AssignmentOf(program, wid, type).totalQuestions) => program' = program
          /\ (ASSIGNMENT_STEP(wid, type, "total-dec")
                /\ AssignmentOf(program, wid, type).totalQuestions = 0) => program' = program
          /\ (ASSIGNMENT_STEP(wid, type, "done-dec")
                /\ AssignmentOf(program, wid, type).doneQuestions = 0) => program' = program]_vars

\* a lecture whose activities were all done had its total stepped: both counts
\* stand at 1 after a step, and XP was earned for more activities than that
C33_Witness ==
  /\ Running
  /\ last.name = "LECTURE_STEP"
  /\ \E i \in 1..Len(program.weeks) : \E j \in 1..Len(program.weeks[i].lectures) :
       /\ program.weeks[i].lectures[j].activityTotal = 1
       /\ program.weeks[i].lectures[j].activityDone = 1
  /\ DayXP(program) >= 2 * LECTURE_ACTIVITY

\* C34: TOGGLE_WEEK and TOGGLE_LECTURE change the expandedWeeks / expandedLectures
\* set they are about and nothing else: the Program and the stored document are
\* as before, and the handler saves nothing
C34_ExpansionTouchesNoData ==
  [][/\ \A wid \in Weeks :
          TOGGLE_WEEK(wid) =>
            /\ program' = program /\ stored' = stored
            /\ ~Saving(last'.effects)
            /\ expandedLectures' = expandedLectures
            /\ (wid \in expandedWeeks') # (wid \in expandedWeeks)
            /\ expandedWeeks' \ {wid} = expandedWeeks \ {wid}
     /\ \A lid \in Lectures :
          TOGGLE_LECTURE(lid) =>
            /\ program' = program /\ stored' = stored
            /\ ~Saving(last'.effects)
            /\ expandedWeeks' = expandedWeeks
            /\ (lid \in expandedLectures') # (lid \in expandedLectures)
            /\ expandedLectures' \ {lid} = expandedLectures \ {lid}]_vars

\* a week was collapsed and its lecture expanded, the Program holding both
C34_Witness ==
  /\ Running
  /\ last.name = "TOGGLE_LECTURE"
  /\ expandedWeeks = {}
  /\ expandedLectures # {}
  /\ LectureIdsOf(program) # {}
  /\ stored = JSONStringify(program)

\* the weeks with every cached lec.xpEarned and week.xpEarned replaced by x
Recached(weeks, x) ==
  [i \in 1..Len(weeks) |->
     Put([weeks[i] EXCEPT !.lectures =
            [j \in 1..Len(weeks[i].lectures) |-> Put(weeks[i].lectures[j], "xpEarned", x)]],
         "xpEarned", x)]

\* C35: recalculateTotalXP called on weeks that agree with the ones of the call
\* made in every checklist and counter field, and differ in the cached xpEarned
\* of their lectures and weeks, returns the same total and writes the same
\* xpEarned values
C35_CachesAreNoInput ==
  Len(h.totals) >= 1 =>
    \A x \in {0, StaleXP + 1} :
      /\ RecalculateTotalXP(Recached(h.before, x)) = h.totals[Len(h.totals)]
      /\ RecalcWeeks(Recached(h.before, x)) = h.weeks

\* the call was made on a week and a lecture with stale caches, and replaced both
C35_Witness ==
  /\ Len(h.totals) = 1
  /\ h.before[1].xpEarned = StaleXP
  /\ h.weeks[1].xpEarned # StaleXP
  /\ \E j \in 1..Len(h.before[1].lectures) :
       /\ h.before[1].lectures[j].xpEarned = StaleXP
       /\ h.weeks[1].lectures[j].xpEarned # StaleXP

\* C36: a week yields one freeze at most over its lifetime, so the freezes ever
\* earned are no more than the weeks ever marked complete: in a session started
\* without freezes on one week never marked complete, in which no freeze is
\* spent, the pool never holds more than one
C36_OneFreezePerWeek ==
  Running => program.streakFreezes <= Len(program.weeks)

\* the sum of the values of xpHistory
RECURSIVE SumOver(_, _)
SumOver(hist, keys) ==
  IF keys = {} THEN 0
  ELSE LET k == CHOOSE x \in keys : TRUE IN hist[k] + SumOver(hist, keys \ {k})
HistoryTotal(p) == SumOver(p.xpHistory, DOMAIN p.xpHistory)

\* C37: from the default Program, without imports and with no entry old enough
\* to be pruned, the values of xpHistory add up to program.totalXP at least,
\* after every handler and in every session
C37_HistoryCoversTotal ==
  Running => HistoryTotal(program) >= program.totalXP

\* XP was lost and earned again in a second session on a later date: xpHistory
\* has entries for two dates and adds up to more than the Program holds
C37_Witness ==
  /\ Running
  /\ clock = 2
  /\ program.totalXP > 0
  /\ Cardinality(DOMAIN program.xpHistory) = 2
  /\ HistoryTotal(program) > program.totalXP

\* the modals whose callback writes a week or lecture captured at the dispatch
WeekModals == {"EDIT_WEEK_NAME", "ADD_LECTURE", "DELETE_WEEK"}
LectureModals == {"RENAME_LECTURE", "DELETE_LECTURE"}

\* C38: one modal callback is pending at a time, and while the callback of
\* EDIT_WEEK_NAME, ADD_LECTURE, RENAME_LECTURE, DELETE_LECTURE or DELETE_WEEK is
\* pending, and so when it runs, the week or lecture captured at the dispatch is
\* in the live Program, whichever note timers fire and file reads complete
\* meanwhile; the Program is never replaced under a pending callback
C38_PendingCallbackTargetIsLive ==
  [][Running' =>
       /\ modal'.action \in WeekModals => FindWeek(program', modal'.weekId) # 0
       /\ modal'.action \in LectureModals =>
            FindLecture(program', modal'.weekId, modal'.lectureId) # 0
       /\ (Running /\ modal.action \in WeekModals \cup LectureModals /\ modal' = modal) =>
            /\ ~ImportConfirmed
            /\ WeekIdsOf(program') = WeekIdsOf(program)
            /\ LectureIdsOf(program') = LectureIdsOf(program)]_vars

\* a file read completed, and was turned down, while the confirmation of a
\* week's deletion was pending
C38_Witness ==
  /\ Running
  /\ modal.action = "DELETE_WEEK"
  /\ last.name = "IMPORT.onload"

\* what the aggregator added to a week beyond its lectures, questions and notes
Awarded(week) ==
  week.xpEarned
    - SumSeq([j \in 1..Len(week.lectures) |-> week.lectures[j].xpEarned])
    - 2 * Counted(week.practiceAssignment.doneQuestions, week.practiceAssignment.totalQuestions)
    - 2 * Counted(week.gradedAssignment.doneQuestions, week.gradedAssignment.totalQuestions)
    - 10 * Bit(week.weeklyMemoryNote) - 10 * Bit(week.weeklyFinalNote)

\* C39: after recalculateTotalXP the breakdown shown for every week agrees with
\* the cache: its total is week.xpEarned, its completionXP is 15 exactly when the
\* aggregator added the bonus to the week and 0 otherwise, and the week.xpEarned
\* of all weeks add up to the total returned
C39_BreakdownAgreesWithCache ==
  Len(h.totals) >= 1 =>
    /\ \A i \in 1..Len(h.weeks) :
         /\ WeekXPBreakdown(h.weeks[i]).total = h.weeks[i].xpEarned
         /\ WeekXPBreakdown(h.weeks[i]).completionXP \in {0, 15}
         /\ WeekXPBreakdown(h.weeks[i]).completionXP = 15 <=> Awarded(h.weeks[i]) = 15
         /\ Awarded(h.weeks[i]) \in {0, 15}
    /\ SumSeq([i \in 1..Len(h.weeks) |-> h.weeks[i].xpEarned]) = h.totals[Len(h.totals)]

\* two weeks were recalculated: the first marked complete without the bonus,
\* the second with it
C39_Witness ==
  /\ Len(h.totals) = 1
  /\ Len(h.weeks) = 2
  /\ h.weeks[1].weekCompleted
  /\ WeekXPBreakdown(h.weeks[1]).completionXP = 0
  /\ WeekXPBreakdown(h.weeks[1]).lectureXP > 0
  /\ WeekXPBreakdown(h.weeks[2]).completionXP = 15

\* C40: migrate applied to its own output returns it unchanged, so a loaded
\* Program that is saved and loaded again, nothing done in between, is the same
\* Program; so is the default Program a first load creates
C40_MigrateIsIdempotent ==
  /\ h.returned =>
       /\ h.result = LoadProgram(JSONStringify(h.data))
       /\ Migrate(h.result) = h.result
       /\ LoadProgram(SaveProgram(JSONStringify(h.data), h.result)) = h.result
  /\ LoadProgram(SaveProgram(NoDoc, LoadProgram(NoDoc))) = LoadProgram(NoDoc)

\* a document without a version whose lecture lacks both back-filled fields has
\* been migrated, which changed it
C40_Witness ==
  /\ h.returned
  /\ ~Has(h.data, "schemaVersion")
  /\ ~Has(h.data, "bestStreak")
  /\ Len(h.data.weeks) = 1
  /\ ~Has(h.data.weeks[1].lectures[1], "revisionCount")
  /\ ~Has(h.data.weeks[1].lectures[1], "notes")
  /\ h.result # h.data
  /\ h.result.schemaVersion = 4

====
